---- MODULE Spec2Model ----
(***************************************************************************)
(* Model of the autonomous ReAct agent of logSense                         *)
(* (backend/agent/autonomous_agent.py): the response parser                *)
(* _parse_llm_response, the tool dispatcher _execute_tool and the          *)
(* iteration loop of AutonomousMCPAgent.investigate.                       *)
(*                                                                         *)
(* Text is modelled as a sequence of tokens.  A token stands for a run of  *)
(* characters that the code never looks inside of: a marker ("ACTION:"),   *)
(* a word, a number, a JSON text, a blank or a newline.                     *)
(* startswith / replace / split / strip / join / in are computed on the    *)
(* token sequence the way Python computes them on the characters.          *)
(***************************************************************************)
EXTENDS Integers, Sequences, FiniteSets, TLC

(***************************************************************************)
(* Bounds of the model.                                                    *)
(***************************************************************************)
\* largest iteration budget (self.max_iterations) the loop is run with
MaxIterations == 3
\* largest number of lines of a generated model response
MaxLines == 3
\* largest iteration budget of a run that starts with a plan
MaxPlanIterations == 2
\* largest iteration budget of two runs side by side
MaxPairIterations == 2
\* the coroutines that use db_service at once, and the calls they make in all
MaxCallers == 2
MaxDbCalls == 4

(***************************************************************************)
(* Tokens.                                                                 *)
(***************************************************************************)
NL == "\n"
SP == " "
\* stands for the three backquotes that open or close a code fence
FENCE == "<fence>"

\* JSON texts, each one token
JObjTok  == "{\"issue_id\": \"X\"}"
JFixTok  == "[{\"title\": \"Add null guard\"}]"
JFindTok == "[\"Null reference in checkout path\"]"
\* a JSON text nested deeper than the recursion limit of the interpreter
JDeepTok == "[[[[...1000"
\* a JSON-looking text that does not parse
JBadArrTok == "[oops]"
JBadObjTok == "{oops}"

\* the analysis the root cause prompt of workflow.py asks for, and one
\* without its reasoning
JAnalysisTok     == "{\"root_cause\": \"w1\", \"confidence\": 85, \"reasoning\": \"w2\"}"
JAnalysisBareTok == "{\"root_cause\": \"w1\", \"confidence\": 85}"
\* the list of fixes the fix prompt of mcp_workflow.py asks for
JFixFullTok == "[{\"title\": \"Add null guard\", \"confidence\": 90}]"

NumberToks == {"85", "90", "150"}

IsSpace(t) == t \in {SP, NL}

(***************************************************************************)
(* Python string operations on token sequences.                            *)
(***************************************************************************)
\* str.strip(): drop leading and trailing whitespace
Strip(s) ==
    LET idx == {i \in 1..Len(s) : ~IsSpace(s[i])}
    IN  IF idx = {} THEN <<>>
        ELSE LET lo == CHOOSE i \in idx : \A j \in idx : i <= j
                 hi == CHOOSE i \in idx : \A j \in idx : i >= j
             IN  SubSeq(s, lo, hi)

\* `tok in s`
Contains(s, tok) == \E i \in 1..Len(s) : s[i] = tok

\* index of the first occurrence of tok in s (0 if none)
FirstIndex(s, tok) ==
    IF Contains(s, tok)
    THEN CHOOSE i \in 1..Len(s) : s[i] = tok /\ \A j \in 1..(i-1) : s[j] # tok
    ELSE 0

\* str.split(sep): the parts between the occurrences of sep
RECURSIVE Split(_, _)
Split(s, sep) ==
    LET i == FirstIndex(s, sep)
    IN  IF i = 0 THEN <<s>>
        ELSE <<SubSeq(s, 1, i-1)>> \o Split(SubSeq(s, i+1, Len(s)), sep)

\* sep.join(parts)
RECURSIVE Join(_, _)
Join(sep, parts) ==
    IF Len(parts) = 0 THEN <<>>
    ELSE IF Len(parts) = 1 THEN parts[1]
    ELSE parts[1] \o <<sep>> \o Join(sep, Tail(parts))

\* str.startswith(marker)
StartsWith(line, marker) == Len(line) > 0 /\ line[1] = marker

\* str.replace(marker, "")
Replace(line, marker) == SelectSeq(line, LAMBDA t : t # marker)

\* text.split(marker)[1].split(NL)[0].strip(): the rest of the line after
\* the first occurrence of marker
FieldAfter(text, marker) == Strip(Split(Split(text, marker)[2], NL)[1])

(***************************************************************************)
(* Python values.                                                          *)
(***************************************************************************)
\* None, as the value of a variable that holds a string otherwise
None == <<"<None>">>

\* truth value of a string-or-None: None and the empty string are falsy
Truthy(v) == v # None /\ v # <<>>

\* JSON values carry their type, so that a list, a mapping and a number
\* never compare equal; a mapping is its set of (key, value) pairs
JV(t, v) == [jtype |-> t, val |-> v]
EmptyDict == JV("object", {})
EmptyList == JV("array", <<>>)

IntOf(tok) == CASE tok = "85" -> 85 [] tok = "90" -> 90 [] tok = "150" -> 150

\* the value a JSON text denotes
JsonValue(tok) ==
    CASE tok = JObjTok  -> JV("object", {<<"issue_id", <<"X">>>>})
      [] tok = JFixTok  -> JV("array", << {<<"title", <<"Add null guard">>>>} >>)
      [] tok = JFindTok -> JV("array", << <<"Null reference in checkout path">> >>)
      [] tok = "{\"title\": \"Add null guard\"}"
                        -> JV("object", {<<"title", <<"Add null guard">>>>})
      [] tok = JAnalysisTok
                        -> JV("object", {<<"root_cause", <<"w1">>>>, <<"confidence", <<"85">>>>,
                                         <<"reasoning", <<"w2">>>>})
      [] tok = JAnalysisBareTok
                        -> JV("object", {<<"root_cause", <<"w1">>>>, <<"confidence", <<"85">>>>})
      [] tok = JFixFullTok
                        -> JV("array", << {<<"title", <<"Add null guard">>>>,
                                           <<"confidence", <<"90">>>>} >>)
      [] tok \in NumberToks -> JV("int", IntOf(tok))

ValidJsonToks == {JObjTok, JFixTok, JFindTok, "{\"title\": \"Add null guard\"}",
                  JAnalysisTok, JAnalysisBareTok, JFixFullTok}
                     \cup NumberToks

\* json.loads(text): the value, JSONDecodeError, or RecursionError when the
\* text nests deeper than the recursion limit
JsonLoads(text) ==
    LET toks == Strip(text)
    IN  IF toks = <<>> THEN [ok |-> FALSE, exc |-> "JSONDecodeError"]
        ELSE IF toks[1] = JDeepTok THEN [ok |-> FALSE, exc |-> "RecursionError"]
        ELSE IF toks[1] \in ValidJsonToks /\ Len(toks) = 1
             THEN [ok |-> TRUE, val |-> JsonValue(toks[1])]
        ELSE [ok |-> FALSE, exc |-> "JSONDecodeError"]

\* tokens that hold an opening and a closing brace
BraceToks == {JObjTok, JFixTok, JBadObjTok}
\* the text of such a token from its first opening to its last closing brace
InnerBrace(tok) == IF tok = JFixTok THEN "{\"title\": \"Add null guard\"}" ELSE tok

\* re.search of a greedy brace-to-brace pattern with DOTALL: from the first
\* opening brace to the last closing brace of the text
BraceSearch(text) ==
    LET idx == {i \in 1..Len(text) : text[i] \in BraceToks}
    IN  IF idx = {} THEN [found |-> FALSE]
        ELSE LET lo == CHOOSE i \in idx : \A j \in idx : i <= j
                 hi == CHOOSE i \in idx : \A j \in idx : i >= j
             IN  [found |-> TRUE,
                  text  |-> IF lo = hi THEN <<InnerBrace(text[lo])>>
                            ELSE SubSeq(text, lo, hi)]

\* tokens that hold an opening bracket, and those that hold a closing one
OpenBracketToks  == {JFixTok, JFindTok, JBadArrTok, JDeepTok}
CloseBracketToks == {JFixTok, JFindTok, JBadArrTok}

\* re.search of a greedy bracket-to-bracket pattern with DOTALL
BracketSearch(text) ==
    LET opens == {i \in 1..Len(text) : text[i] \in OpenBracketToks}
    IN  IF opens = {} THEN [found |-> FALSE]
        ELSE LET lo == CHOOSE i \in opens : \A j \in opens : i <= j
                 closes == {i \in lo..Len(text) : text[i] \in CloseBracketToks}
             IN  IF closes = {} THEN [found |-> FALSE]
                 ELSE LET hi == CHOOSE i \in closes : \A j \in closes : i >= j
                      IN  [found |-> TRUE, text |-> SubSeq(text, lo, hi)]

(***************************************************************************)
(* _parse_llm_response                                                     *)
(***************************************************************************)
Min(S) == CHOOSE i \in S : \A j \in S : i <= j

\* a dict without an "action" key
EmptyContent == [action |-> "EMPTY"]
\* an exception leaving the parser
Raised(exc) == [action |-> "RAISED", exc |-> exc]

\* lines 243-257: the THINK branch
ThinkBranch(lines, i) ==
    LET starts == {j \in (i+1)..Len(lines) : StartsWith(lines[j], "REASONING:")}
    IN  IF starts = {} THEN EmptyContent
        ELSE LET reasoning_start == Min(starts)
                 stops == {k \in (reasoning_start+1)..Len(lines) :
                              StartsWith(lines[k], FENCE) \/ StartsWith(lines[k], "ACTION:")}
                 last == IF stops = {} THEN Len(lines) ELSE Min(stops) - 1
                 reasoning_lines == SubSeq(lines, reasoning_start + 1, last)
             IN  [action |-> "THINK",
                  reasoning |-> Strip(Replace(Join(SP, reasoning_lines), "REASONING:"))]

\* lines 271-274: args_text += " " + lines[k] for k = from .. last
RECURSIVE AppendLines(_, _, _)
AppendLines(lines, from, last) ==
    IF from > last THEN <<>>
    ELSE <<SP>> \o lines[from] \o AppendLines(lines, from + 1, last)

\* lines 268-274: the text after ARGUMENTS: and the lines that continue it
ArgsText(lines, j) ==
    LET stops == {k \in (j+1)..Len(lines) :
                     StartsWith(lines[k], "ACTION:") \/ StartsWith(lines[k], FENCE)}
        last == IF stops = {} THEN Len(lines) ELSE Min(stops) - 1
    IN  Strip(Replace(lines[j], "ARGUMENTS:")) \o AppendLines(lines, j + 1, last)

\* lines 264-292: the loop over the lines after a TOOL_CALL marker
RECURSIVE ToolCallScan(_, _, _, _)
ToolCallScan(lines, j, tool_name, arguments) ==
    IF j > Len(lines)
    THEN [action |-> "TOOL_CALL", tool |-> tool_name, arguments |-> arguments]
    ELSE IF StartsWith(lines[j], "TOOL:")
    THEN ToolCallScan(lines, j + 1, Strip(Replace(lines[j], "TOOL:")), arguments)
    ELSE IF StartsWith(lines[j], "ARGUMENTS:")
    THEN LET args_text == ArgsText(lines, j)
             strict == JsonLoads(args_text)
         IN  IF strict.ok THEN ToolCallScan(lines, j + 1, tool_name, strict.val)
             ELSE IF strict.exc # "JSONDecodeError" THEN Raised(strict.exc)
             ELSE LET json_match == BraceSearch(args_text)
                  IN  IF ~json_match.found
                      THEN ToolCallScan(lines, j + 1, tool_name, arguments)
                      ELSE LET inner == JsonLoads(json_match.text)
                           IN  ToolCallScan(lines, j + 1, tool_name,
                                   IF inner.ok THEN inner.val ELSE EmptyDict)
    ELSE ToolCallScan(lines, j + 1, tool_name, arguments)

\* lines 259-292: the TOOL_CALL branch
ToolCallBranch(lines, i) == ToolCallScan(lines, i + 1, None, EmptyDict)

\* str.strip("- "): drop leading and trailing dashes and blanks
StripDash(s) ==
    LET idx == {i \in 1..Len(s) : s[i] \notin {"-", SP}}
    IN  IF idx = {} THEN <<>>
        ELSE SubSeq(s, Min(idx), CHOOSE i \in idx : \A j \in idx : i >= j)

\* lines 339-341: the lines that begin with a bullet dash, without the dash
RECURSIVE Bullets(_)
Bullets(ls) ==
    IF ls = <<>> THEN <<>>
    ELSE (IF StartsWith(Strip(ls[1]), "-")
          THEN << Strip(StripDash(ls[1])) >> ELSE <<>>) \o Bullets(Tail(ls))

\* int(conf_match), 50 when it raises (lines 311-314)
ParseConfidence(conf_match) ==
    IF Len(conf_match) = 1 /\ conf_match[1] \in NumberToks
    THEN IntOf(conf_match[1]) ELSE 50

\* lines 316-328: the first JSON array between SUGGESTED_FIXES: and KEY_FINDINGS:
ParseFixes(answer_text) ==
    LET after == Split(answer_text, "SUGGESTED_FIXES:")[2]
        fixes_text == IF Contains(after, "KEY_FINDINGS:")
                      THEN Split(after, "KEY_FINDINGS:")[1] ELSE after
        json_match == BracketSearch(fixes_text)
    IN  IF ~json_match.found THEN EmptyList
        ELSE LET r == JsonLoads(json_match.text)
             IN  IF r.ok THEN r.val ELSE EmptyList

\* lines 330-341: the JSON array after KEY_FINDINGS:, the bullet lines when
\* parsing it raises
ParseFindings(answer_text) ==
    LET findings_text == Split(answer_text, "KEY_FINDINGS:")[2]
        json_match == BracketSearch(findings_text)
    IN  IF ~json_match.found THEN EmptyList
        ELSE LET r == JsonLoads(json_match.text)
             IN  IF r.ok THEN r.val
                 ELSE JV("array", Bullets(Split(findings_text, NL)))

\* lines 294-349: the ANSWER branch
AnswerBranch(lines, i) ==
    LET answer_text == Join(NL, SubSeq(lines, i + 1, Len(lines)))
    IN  [action |-> "ANSWER",
         root_cause |-> IF Contains(answer_text, "ROOT_CAUSE:")
                        THEN FieldAfter(answer_text, "ROOT_CAUSE:") ELSE <<>>,
         confidence |-> IF Contains(answer_text, "CONFIDENCE:")
                        THEN ParseConfidence(FieldAfter(answer_text, "CONFIDENCE:"))
                        ELSE 0,
         suggested_fixes |-> IF Contains(answer_text, "SUGGESTED_FIXES:")
                             THEN ParseFixes(answer_text) ELSE EmptyList,
         key_findings |-> IF Contains(answer_text, "KEY_FINDINGS:")
                          THEN ParseFindings(answer_text) ELSE EmptyList]

\* lines 239-351: what the first ACTION: line makes of content
BranchContent(lines) ==
    LET marked == {i \in 1..Len(lines) : StartsWith(lines[i], "ACTION:")}
    IN  IF marked = {} THEN EmptyContent
        ELSE LET i == Min(marked)
                 action_type == Strip(Replace(lines[i], "ACTION:"))
             IN  CASE action_type = <<"THINK">>     -> ThinkBranch(lines, i)
                   [] action_type = <<"TOOL_CALL">> -> ToolCallBranch(lines, i)
                   [] action_type = <<"ANSWER">>    -> AnswerBranch(lines, i)
                   [] OTHER                         -> EmptyContent

\* the flag, were the ACTION: branch to assign it
ActionFlagAssigned(lines) ==
    IF \E i \in 1..Len(lines) : StartsWith(lines[i], "ACTION:") THEN <<"set">> ELSE None

\* line 236: action = None; no later line assigns the local variable
ActionFlag(lines) == None

\* the fallback, were it to keep the stripped text the lines were cut from
FallbackStripped(response) == [action |-> "THINK", reasoning |-> Strip(response)]

\* lines 353-358: the fallback taken while the flag is unset
Fallback(response) == [action |-> "THINK", reasoning |-> response]

\* lines 231-360
_parse_llm_response(response) ==
    LET lines == Split(Strip(response), NL)
        content == BranchContent(lines)
    IN  IF content.action = "RAISED" THEN content
        ELSE IF ActionFlag(lines) = None THEN Fallback(response)
        ELSE content

(***************************************************************************)
(* _execute_tool                                                           *)
(***************************************************************************)
\* lines 145-151: the keys of tool_map
ToolNames == {"get_sentry_issue_details", "get_stacktrace", "search_knowledge_base",
              "analyze_error_frequency", "get_user_impact"}

\* tools/tools.py: the parameters a tool requires and those it accepts
RequiredParams(tool) ==
    IF tool = "search_knowledge_base" THEN {"error_message"} ELSE {"issue_id"}
AcceptedParams(tool) ==
    IF tool = "search_knowledge_base" THEN {"error_message", "limit"} ELSE {"issue_id"}

\* line 157: tool_map[tool_name](**arguments) binds the arguments; a value
\* that is no mapping, an unexpected key or a missing one is a TypeError
ArgumentsAccepted(tool, arguments) ==
    /\ arguments.jtype = "object"
    /\ LET keys == {kv[1] : kv \in arguments.val}
       IN  RequiredParams(tool) \subseteq keys /\ keys \subseteq AcceptedParams(tool)

\* what a tool of tools/tools.py returns: its value, or the error dict it
\* builds itself when its collaborator fails
ToolOutcomes == {"value", "tool_error"}
ToolReturn(tool, outcome) ==
    IF outcome = "value"
    THEN JV("object", {<<"title", <<"NullPointer in checkout">>>>})
    ELSE JV("object", {<<"error", <<"upstream failed">>>>})

ErrorResult(message) == JV("object", {<<"error", message>>})

\* lines 55-65: _emit_step sends a step event when a callback is set
Emit(callback, step_type, data) ==
    IF callback THEN << [type |-> "step", step_type |-> step_type, data |-> data] >>
    ELSE <<>>

\* the events a call of a capability adds to the timeline (line 157, awaited)
ToolCallSteps == <<"tool_start", "tool_end">>

\* lines 129-175.  result: the value returned; emitted: the events sent;
\* invoked: the capability calls made; raised: an exception left the method.
\* up_before, up_after: whether the callback delivers before and after the
\* tool is awaited
_execute_tool(callback, up_before, up_after, tool_name, arguments, outcome) ==
    LET announced == Emit(callback, "tool_execution",
                          [tool |-> tool_name, arguments |-> arguments])
        call      == << [tool |-> tool_name[1], arguments |-> arguments] >>
    IN  IF callback /\ ~up_before
        THEN \* line 131: the callback raises outside the try
             [raised |-> TRUE, result |-> [nothing |-> TRUE],
              emitted |-> <<>>, invoked |-> <<>>, steps |-> <<>>]
        ELSE IF ~(Len(tool_name) = 1 /\ tool_name[1] \in ToolNames)
        THEN [raised |-> FALSE,
              result  |-> ErrorResult(<<"Unknown tool:", SP>> \o tool_name),
              emitted |-> announced,
              invoked |-> <<>>, steps |-> <<>>]
        ELSE IF ~ArgumentsAccepted(tool_name[1], arguments)
        THEN [raised |-> FALSE,
              result  |-> ErrorResult(<<"TypeError">>),
              emitted |-> announced \o Emit(callback, "tool_result",
                              [tool |-> tool_name, success |-> FALSE,
                               error |-> <<"TypeError">>]),
              invoked |-> <<>>, steps |-> <<>>]
        ELSE IF callback /\ ~up_after
        THEN \* lines 159-173: the tool_result event raises inside the try, the
             \* handler replaces the result by an error and raises on its own event
             [raised |-> TRUE, result |-> [nothing |-> TRUE],
              emitted |-> announced, invoked |-> call, steps |-> ToolCallSteps]
        ELSE [raised |-> FALSE,
              result  |-> ToolReturn(tool_name[1], outcome),
              emitted |-> announced \o Emit(callback, "tool_result",
                              [tool |-> tool_name, success |-> TRUE,
                               result_preview |-> ToolReturn(tool_name[1], outcome)]),
              invoked |-> call, steps |-> ToolCallSteps]

(***************************************************************************)
(* Model responses.                                                        *)
(***************************************************************************)
\* the lines a generated response is made of
LineShapes ==
    { <<>>,
      <<"w1">>,
      <<"w2", SP, "ACTION:">>,
      <<SP, "ACTION:", SP, "THINK">>,
      <<"ACTION:", SP, "THINK">>,
      <<"ACTION:", SP, "TOOL_CALL">>,
      <<"ACTION:", SP, "ANSWER">>,
      <<"ACTION:", SP, "FOO">>,
      <<"REASONING:", SP, "w1">>,
      <<FENCE>>,
      <<"TOOL:", SP, "get_stacktrace">>,
      <<"ARGUMENTS:", SP, JObjTok>>,
      <<"ARGUMENTS:", SP, JDeepTok>>,
      <<"CONFIDENCE:", SP, "85">> }

\* whitespace before and after the lines
LeadPads  == { <<>>, <<SP>>, <<NL>> }
TrailPads == { <<>>, <<NL>> }

\* the responses of at most MaxLines lines
Responses ==
    { pre \o Join(NL, ls) \o post :
        pre \in LeadPads, post \in TrailPads,
        ls \in UNION { [1..n -> LineShapes] : n \in 1..MaxLines } }

\* the responses the loop is driven with
RThink       == <<"ACTION:", SP, "THINK", NL, "REASONING:", SP, "w1", NL, "w2">>
RPlain       == <<"w1", SP, "w2">>
RToolCall    == <<"ACTION:", SP, "TOOL_CALL", NL, "TOOL:", SP, "get_stacktrace", NL,
                  "ARGUMENTS:", SP, JObjTok>>
RToolUnknown == <<"ACTION:", SP, "TOOL_CALL", NL, "TOOL:", SP, "nonexistent_tool", NL,
                  "ARGUMENTS:", SP, JObjTok>>
RToolBadArgs == <<"ACTION:", SP, "TOOL_CALL", NL, "TOOL:", SP, "get_stacktrace", NL,
                  "ARGUMENTS:", SP, JFixTok>>
RToolDeep    == <<"ACTION:", SP, "TOOL_CALL", NL, "TOOL:", SP, "get_stacktrace", NL,
                  "ARGUMENTS:", SP, JDeepTok>>
RToolNoName  == <<"ACTION:", SP, "TOOL_CALL", NL, "ARGUMENTS:", SP, JObjTok>>
RAnswer85    == <<"ACTION:", SP, "ANSWER", NL, "ROOT_CAUSE:", SP, "w1", NL,
                  "CONFIDENCE:", SP, "85">>
RAnswer150   == <<"ACTION:", SP, "ANSWER", NL, "ROOT_CAUSE:", SP, "w1", NL,
                  "CONFIDENCE:", SP, "150">>
RAnswer90    == <<"ACTION:", SP, "ANSWER", NL,
                  "ROOT_CAUSE:", SP, "Null", SP, "checkout", SP, "reference", NL,
                  "CONFIDENCE:", SP, "90", NL,
                  "SUGGESTED_FIXES:", SP, JFixTok, NL,
                  "KEY_FINDINGS:", SP, JFindTok>>
\* responses whose arguments or findings are malformed
RToolGarbled    == <<"ACTION:", SP, "TOOL_CALL", NL, "TOOL:", SP, "get_stacktrace", NL,
                     "ARGUMENTS:", SP, "w1", SP, "w2">>
RToolBadBrace   == <<"ACTION:", SP, "TOOL_CALL", NL, "TOOL:", SP, "get_stacktrace", NL,
                     "ARGUMENTS:", SP, "w1", SP, JBadObjTok>>
RAnswerBullets  == <<"ACTION:", SP, "ANSWER", NL, "ROOT_CAUSE:", SP, "w1", NL,
                     "KEY_FINDINGS:", NL, "-", SP, "w1", NL, "w2", NL, "-", SP, "w2">>
RAnswerBadArray == <<"ACTION:", SP, "ANSWER", NL, "ROOT_CAUSE:", SP, "w1", NL,
                     "KEY_FINDINGS:", SP, JBadArrTok, NL, "-", SP, "w1", NL, "w2", NL,
                     "-", SP, "w2">>
MalformedResponses == {RToolGarbled, RToolBadBrace, RAnswerBullets, RAnswerBadArray}

LoopResponses == {RThink, RPlain, RToolCall, RToolUnknown, RToolBadArgs, RToolDeep,
                  RToolNoName, RAnswer85, RAnswer90, RAnswer150}

(***************************************************************************)
(* State.                                                                  *)
(***************************************************************************)
VARIABLES
    pc,                    \* where investigate is: idle, loop, returned, raised
    max_iterations,        \* self.max_iterations
    stream_callback,       \* whether self.stream_callback is set
    iteration,             \* the local iteration
    conversation_history,  \* self.conversation_history
    observations,          \* the local observations
    final_answer,          \* the local final_answer
    result,                \* the value investigate returned
    events,                \* the messages handed to the stream callback
    llm_inputs,            \* the message lists handed to self.llm.ainvoke
    tool_invocations,      \* the calls made on the tools of tool_map
    parse_in,              \* a text handed to _parse_llm_response
    parse_out,             \* what _parse_llm_response made of it
    tool_in,               \* a call handed to _execute_tool
    tool_out,              \* what _execute_tool made of it
    task,                  \* the issue_id and error_message investigate is called with
    sink,                  \* whether the stream callback delivers: up, gone, broken
    exc,                   \* the exception that ended the run, if any
    ws,                    \* where analyze_incident_stream is
    sent,                  \* the messages delivered on the websocket
    kb,                    \* the incidents added to the knowledge base
    timeline,              \* the starts and ends of model and tool calls, in order
    plan,                  \* what plan_investigation produced
    pair,                  \* two agent instances running side by side
    wf,                    \* the MCPIncidentAgent of workflow.py: llm, state, collected_steps
    mcp,                   \* the RealMCPIncidentAgent of mcp_workflow.py: mcp_session, state
    db                     \* the global db_service of database.py and its callers

vars == <<pc, max_iterations, stream_callback, iteration, conversation_history,
          observations, final_answer, result, events, llm_inputs, tool_invocations,
          parse_in, parse_out, tool_in, tool_out,
          task, sink, exc, ws, sent, kb, timeline, plan, pair, wf, mcp, db>>

loopVars == <<pc, iteration, conversation_history, observations, final_answer,
              result, events, llm_inputs, tool_invocations>>

envVars == <<task, sink, exc, ws, sent, kb, timeline, plan, pair, wf, mcp, db>>

\* the value of a variable that holds nothing yet
Nothing == [nothing |-> TRUE]

SystemMessage(content) == [role |-> "system", content |-> content]
HumanMessage(content)  == [role |-> "human",  content |-> content]
AIMessage(content)     == [role |-> "ai",     content |-> content]

\* a float, as a fraction
Ratio(n, d) == [num |-> n, den |-> d]

(***************************************************************************)
(* AutonomousMCPAgent.investigate                                          *)
(***************************************************************************)
\* json.dumps of a tool result, as text
Dumps(value) ==
    LET kv == CHOOSE kv \in value.val : TRUE
    IN  <<"{\"", kv[1], "\": \"">> \o kv[2] \o <<"\"}">>

\* lines 457-459: the observation entry of a tool result
ObservationEntry(tool_name, value) ==
    HumanMessage(<<"OBSERVATION:", SP, "Tool", SP, "'">> \o tool_name \o
                 <<"'", SP, "returned:", SP>> \o Dumps(value))

\* lines 468-470
NoToolNameEntry ==
    HumanMessage(<<"OBSERVATION:", SP, "Tool call failed - no tool name provided">>)

\* lines 488-490
NudgeEntry ==
    HumanMessage(<<"You've reached the maximum number of iterations. Please provide your final answer now.">>)

\* the exhaustion result, were it to carry the fallback confidence of the parser
ExhaustedAnswerHalf(n, obs) ==
    [root_cause      |-> <<"Investigation incomplete - maximum iterations reached">>,
     confidence      |-> Ratio(50, 100),
     suggested_fixes |-> EmptyList,
     key_findings    |-> JV("array", << <<"Investigation did not complete within iteration limit">> >>),
     iterations      |-> n,
     observations    |-> obs]

\* lines 494-501
ExhaustedAnswer(n, obs) ==
    [root_cause      |-> <<"Investigation incomplete - maximum iterations reached">>,
     confidence      |-> Ratio(3, 10),
     suggested_fixes |-> EmptyList,
     key_findings    |-> JV("array", << <<"Investigation did not complete within iteration limit">> >>),
     iterations      |-> n,
     observations    |-> obs]

\* lines 476-483
CompletedAnswer(parsed, n, obs) ==
    [root_cause      |-> parsed.root_cause,
     confidence      |-> Ratio(parsed.confidence, 100),
     suggested_fixes |-> parsed.suggested_fixes,
     key_findings    |-> parsed.key_findings,
     iterations      |-> n,
     observations    |-> obs]

\* the loop condition, were it to admit one more iteration
LoopConditionInclusive(n, max) == n <= max

\* line 414: the condition of the while loop
LoopCondition(n, max) == n < max

\* line 487: the condition of the answer-now entry
NudgeDue(n, max) == n >= max - 1

\* the states of the stream callback: it delivers, or it raises because the
\* client is gone (WebSocketDisconnect), or it raises anything else
SinkStates == {"up", "gone", "broken"}

\* what an await can leave the callback in: only a websocket raises
\* WebSocketDisconnect
SinkFates == IF ws = "off" THEN {"up", "broken"} ELSE SinkStates

\* the state of the callback after an await during which it may fail
After(s, fate) == IF s = "up" THEN fate ELSE s

\* the exception a failing callback raises
SinkExc(s) == IF s = "gone" THEN "WebSocketDisconnect" ELSE "SinkError"

\* the issues investigate is called with
Tasks == { [issue_id |-> <<"ISSUE-1">>, error_message |-> <<"Null reference in checkout">>],
           [issue_id |-> <<"ISSUE-2">>, error_message |-> <<"Timeout">>] }

\* the data of the iteration event, were the iterations counted from zero
IterationEventZeroBased(n, max) == [number |-> n - 1, max |-> max]

\* lines 416-420: the data of the iteration event
IterationEvent(n, max) == [number |-> n, max |-> max]

\* the events a model invocation adds to the timeline, were it started and
\* not awaited
ModelCallDetached == <<"llm_start">>

\* line 423: the model invocation is awaited
ModelCallSteps == <<"llm_start", "llm_end">>

\* line 424, were it to keep a window of the two latest entries
AppendEntryWindowed(history, entry) ==
    LET h == Append(history, entry) IN SubSeq(h, Len(h) - 1, Len(h))

\* line 424: the response is appended to the history
AppendEntry(history, entry) == Append(history, entry)

\* the complete event, were it to lose the identifiers of the task
CompleteEventBare(t, answer) ==
    [type |-> "complete",
     content |-> [issue_id        |-> None,
                  error_message   |-> None,
                  root_cause      |-> answer.root_cause,
                  confidence      |-> answer.confidence,
                  suggested_fixes |-> answer.suggested_fixes,
                  key_findings    |-> answer.key_findings,
                  iterations      |-> answer.iterations,
                  observations    |-> answer.observations,
                  status          |-> "success"]]

\* lines 504-513: the complete event
CompleteEvent(t, answer) ==
    [type |-> "complete",
     content |-> [issue_id        |-> t.issue_id,
                  error_message   |-> t.error_message,
                  root_cause      |-> answer.root_cause,
                  confidence      |-> answer.confidence,
                  suggested_fixes |-> answer.suggested_fixes,
                  key_findings    |-> answer.key_findings,
                  iterations      |-> answer.iterations,
                  observations    |-> answer.observations,
                  status          |-> "success"]]

\* the context after a Think step, were the thought echoed as an observation
ThinkHistoryEchoed(history, reasoning) ==
    Append(history, HumanMessage(<<"OBSERVATION:", SP>> \o reasoning))

\* lines 429-439: the Think branch leaves the context as it is
ThinkHistory(history, reasoning) == history

\* lines 429-484: what iteration n does with the parsed response.
\* raised: an exception left the loop; answer: the final answer, if any;
\* sink_now, sink_later: the callback before and after the tool is awaited
Dispatch(parsed, n, history, obs, outcome, sink_now, sink_later) ==
    IF parsed.action \in {"THINK", "TOOL_CALL", "ANSWER"}
       /\ stream_callback /\ sink_now # "up"
    THEN \* lines 431, 440, 474: the event of the branch raises
         [raised  |-> TRUE, exc |-> SinkExc(sink_now), answer |-> Nothing,
          history |-> history, obs |-> obs, emitted |-> <<>>,
          invoked |-> <<>>, steps |-> <<>>]
    ELSE
    CASE parsed.action = "THINK" ->
           [raised  |-> FALSE, exc |-> "none", answer |-> Nothing,
            history |-> ThinkHistory(history, parsed.reasoning),
            obs     |-> Append(obs, [type |-> "thought", content |-> parsed.reasoning]),
            emitted |-> Emit(stream_callback, "thinking",
                             [iteration |-> n, reasoning |-> parsed.reasoning]),
            invoked |-> <<>>, steps |-> <<>>]
      [] parsed.action = "TOOL_CALL" ->
           LET called == Emit(stream_callback, "tool_call",
                              [iteration |-> n, tool |-> parsed.tool,
                               arguments |-> parsed.arguments])
           IN  IF Truthy(parsed.tool)
               THEN LET ex == _execute_tool(stream_callback, sink_now = "up",
                                            sink_later = "up", parsed.tool,
                                            parsed.arguments, outcome)
                    IN  IF ex.raised
                        THEN [raised  |-> TRUE, exc |-> SinkExc(sink_later),
                              answer  |-> Nothing, history |-> history, obs |-> obs,
                              emitted |-> called \o ex.emitted,
                              invoked |-> ex.invoked, steps |-> ex.steps]
                        ELSE [raised  |-> FALSE, exc |-> "none", answer |-> Nothing,
                              history |-> Append(history,
                                                 ObservationEntry(parsed.tool, ex.result)),
                              obs     |-> Append(obs, [type |-> "tool_result",
                                                       tool |-> parsed.tool,
                                                       result |-> ex.result]),
                              emitted |-> called \o ex.emitted,
                              invoked |-> ex.invoked,
                              steps   |-> ex.steps \o <<"observed">>]
               ELSE [raised  |-> FALSE, exc |-> "none", answer |-> Nothing,
                     history |-> Append(history, NoToolNameEntry),
                     obs     |-> obs, emitted |-> called, invoked |-> <<>>,
                     steps   |-> <<"observed">>]
      [] parsed.action = "ANSWER" ->
           [raised  |-> FALSE, exc |-> "none",
            answer  |-> CompletedAnswer(parsed, n, obs),
            history |-> history, obs |-> obs,
            emitted |-> Emit(stream_callback, "final_answer", parsed),
            invoked |-> <<>>, steps |-> <<>>]
      [] OTHER ->
           \* the parser raised, or parsed has no "action" key (KeyError)
           [raised  |-> TRUE,
            exc     |-> IF parsed.action = "RAISED" THEN parsed.exc ELSE "KeyError",
            answer  |-> Nothing, history |-> history,
            obs     |-> obs, emitted |-> <<>>, invoked |-> <<>>, steps |-> <<>>]

\* the messages on the websocket, were a new one put in front of the others
DeliverReversed(msgs) == IF ws = "off" THEN sent ELSE msgs \o sent

\* main.py line 156: what the callback has sent on the websocket
Deliver(msgs) == IF ws = "off" THEN sent ELSE sent \o msgs

\* the callback raises when it is called
SinkFails == stream_callback /\ sink # "up"

(***************************************************************************)
(* AdvancedAutonomousAgent.plan_investigation                              *)
(***************************************************************************)
DigitToks == {"1", "2"}

\* the answers of the planning model
PlanOne  == <<"1", ".", SP, "get_stacktrace", SP, "-", SP, "w1">>
PlanTwo  == PlanOne \o <<NL, "2", ".", SP, "get_user_impact", SP, "-", SP, "w2">>
PlanBare == <<"1", SP, "get_stacktrace">>
\* a preamble line, two numbered lines and an indented numbered line
PlanMixed == <<"w1", NL>> \o PlanTwo \o <<NL, SP, "2", ".", SP, "get_user_impact">>
PlanResponses == {PlanOne, PlanTwo, PlanBare, PlanMixed, <<"w1", SP, "w2">>}

\* lines 562-567: the tool name of a numbered line
PlanToolName(line) ==
    LET tool_part == Strip(Split(line, "-")[1])
    IN  IF Contains(tool_part, ".") THEN Strip(Split(tool_part, ".")[2])
        ELSE tool_part

\* lines 558-567 with the test of line 561 left out
PlanOfEveryLine(response) ==
    LET lines == Split(Strip(response), NL)
    IN  [k \in 1..Len(lines) |-> PlanToolName(lines[k])]

\* lines 558-567: the plan read from the response
PlanOf(response) ==
    LET lines == Split(Strip(response), NL)
        kept  == SelectSeq(lines, LAMBDA l : Strip(l) # <<>> /\ l[1] \in DigitToks)
    IN  [k \in 1..Len(kept) |-> PlanToolName(kept[k])]

\* lines 586-588: the entry investigate_with_planning adds
PlanEntry(names) ==
    SystemMessage(<<"Investigation plan:", SP, "[">> \o Join(",", names) \o
                  <<"]", ". Follow this plan but adapt as needed based on findings.">>)

\* list.insert(index, entry)
Insert(list, index, entry) ==
    LET k == IF index < Len(list) THEN index ELSE Len(list)
    IN  SubSeq(list, 1, k) \o <<entry>> \o SubSeq(list, k + 1, Len(list))

Init ==
    /\ pc = "idle"
    /\ max_iterations \in 1..MaxIterations
    /\ ws = "off"
    /\ stream_callback \in BOOLEAN
    /\ iteration = 0
    /\ conversation_history = <<>>
    /\ observations = <<>>
    /\ final_answer = Nothing
    /\ result = Nothing
    /\ events = <<>>
    /\ llm_inputs = <<>>
    /\ tool_invocations = <<>>
    /\ parse_in = <<>>
    /\ parse_out = Nothing
    /\ tool_in = Nothing
    /\ tool_out = Nothing
    /\ task = Nothing
    /\ sink = "up"
    /\ exc = "none"
    /\ sent = <<>>
    /\ kb = <<>>
    /\ timeline = <<>>
    /\ plan = Nothing
    /\ mcp = Nothing
    /\ db = Nothing
    /\ wf = Nothing
    /\ pair = Nothing

\* lines 531-588: investigate_with_planning up to its call of investigate
PlanInvestigation ==
    /\ pc = "planning"
    /\ \E t \in Tasks, answered \in BOOLEAN, response \in PlanResponses,
          fate \in SinkFates :
         /\ ~stream_callback => fate = "up"
         /\ task' = t
         /\ sink' = After(sink, fate)
         /\ IF ~answered
            THEN \* line 553: the planning model raises
                 /\ pc' = "raised"
                 /\ exc' = "ModelError"
                 /\ timeline' = timeline \o <<"llm_start", "llm_raise">>
                 /\ plan' = [calls |-> 1, steps |-> <<>>, response |-> Nothing]
                 /\ UNCHANGED <<events, conversation_history>>
            ELSE /\ timeline' = timeline \o ModelCallSteps
                 /\ plan' = [calls |-> 1, steps |-> PlanOf(response), response |-> response]
                 /\ IF stream_callback /\ After(sink, fate) # "up"
                    THEN \* line 571: the plan event raises
                         /\ pc' = "raised"
                         /\ exc' = SinkExc(After(sink, fate))
                         /\ UNCHANGED <<events, conversation_history>>
                    ELSE /\ pc' = "planned"
                         /\ exc' = exc
                         /\ events' = events \o
                                Emit(stream_callback, "investigation_plan",
                                     [plan |-> PlanOf(response), raw_plan |-> response])
                         /\ conversation_history' =
                                Insert(conversation_history, 1, PlanEntry(PlanOf(response)))
    /\ UNCHANGED <<db, mcp, wf, pair, max_iterations, stream_callback, iteration, observations,
                   final_answer, result, llm_inputs, tool_invocations,
                   parse_in, parse_out, tool_in, tool_out, ws, sent, kb>>

\* lines 379-412: investigate up to the loop
Begin ==
    /\ pc \in {"idle", "planned"}
    /\ ws \in {"off", "running"}
    /\ task' \in (IF task = Nothing THEN Tasks ELSE {task})
    /\ IF SinkFails
       THEN \* line 379: the start event raises
            /\ pc' = "raised"
            /\ exc' = SinkExc(sink)
            /\ UNCHANGED <<events, sent, conversation_history, iteration,
                           final_answer, observations>>
       ELSE /\ pc' = "loop"
            /\ exc' = exc
            /\ events' = events \o Emit(stream_callback, "start", [mode |-> "autonomous"])
            /\ sent' = Deliver(Emit(stream_callback, "start", [mode |-> "autonomous"]))
            /\ conversation_history' = << SystemMessage(<<"<react prompt>">>),
                                          HumanMessage(<<"Begin investigating issue">>) >>
            /\ iteration' = 0
            /\ final_answer' = Nothing
            /\ observations' = <<>>
    /\ UNCHANGED <<db, mcp, wf, pair, max_iterations, stream_callback, result, llm_inputs,
                   tool_invocations, parse_in, parse_out, tool_in, tool_out,
                   sink, ws, kb, timeline, plan>>

\* lines 414-490: one iteration of the loop, the model answering with response
Iterate ==
    /\ pc = "loop"
    /\ final_answer = Nothing
    /\ LoopCondition(iteration, max_iterations)
    /\ \E response \in LoopResponses, outcome \in ToolOutcomes,
          fate1 \in SinkFates, fate2 \in SinkFates :
         LET n      == iteration + 1
             asked  == Emit(stream_callback, "iteration",
                            IterationEvent(n, max_iterations))
             said   == AppendEntry(conversation_history, AIMessage(response))
             parsed == _parse_llm_response(response)
             mid    == After(sink, fate1)
             late   == After(mid, fate2)
             did    == Dispatch(parsed, n, said, observations, outcome, mid, late)
             nudged == IF ~did.raised /\ did.answer = Nothing
                          /\ NudgeDue(n, max_iterations)
                       THEN Append(did.history, NudgeEntry) ELSE did.history
         IN  /\ ~stream_callback => fate1 = "up"
             /\ parsed.action # "TOOL_CALL" => fate2 = fate1
             /\ iteration' = n
             /\ IF SinkFails
                THEN \* line 417: the iteration event raises
                     /\ pc' = "raised"
                     /\ exc' = SinkExc(sink)
                     /\ UNCHANGED <<llm_inputs, conversation_history, observations,
                                    final_answer, events, sent, tool_invocations,
                                    sink, timeline>>
                ELSE /\ llm_inputs' = Append(llm_inputs, conversation_history)
                     /\ conversation_history' = nudged
                     /\ observations' = did.obs
                     /\ final_answer' = did.answer
                     /\ events' = events \o asked \o did.emitted
                     /\ sent' = Deliver(asked \o did.emitted)
                     /\ tool_invocations' = tool_invocations \o did.invoked
                     /\ timeline' = timeline \o ModelCallSteps \o <<"parsed">> \o did.steps
                     /\ sink' = late
                     /\ pc' = IF did.raised THEN "raised" ELSE "loop"
                     /\ exc' = IF did.raised THEN did.exc ELSE exc
    /\ UNCHANGED <<db, mcp, wf, pair, max_iterations, stream_callback, result,
                   parse_in, parse_out, tool_in, tool_out, task, ws, kb, plan>>

\* the failing model invocation, were the loop to catch it and go on
ModelRaisesRecovered ==
    /\ pc = "loop"
    /\ final_answer = Nothing
    /\ LoopCondition(iteration, max_iterations)
    /\ ~SinkFails
    /\ iteration' = iteration + 1
    /\ llm_inputs' = Append(llm_inputs, conversation_history)
    /\ events' = events \o Emit(stream_callback, "iteration",
                                IterationEvent(iteration + 1, max_iterations))
    /\ sent' = Deliver(Emit(stream_callback, "iteration",
                            IterationEvent(iteration + 1, max_iterations)))
    /\ timeline' = timeline \o <<"llm_start", "llm_raise">>
    /\ pc' = "loop"
    /\ exc' = "ModelError"
    /\ UNCHANGED <<db, mcp, wf, pair, max_iterations, stream_callback, conversation_history, observations,
                   final_answer, result, tool_invocations,
                   parse_in, parse_out, tool_in, tool_out, task, sink, ws, kb, plan>>

\* lines 414-423: the model invocation of an iteration raises
ModelRaises ==
    /\ pc = "loop"
    /\ final_answer = Nothing
    /\ LoopCondition(iteration, max_iterations)
    /\ ~SinkFails
    /\ iteration' = iteration + 1
    /\ llm_inputs' = Append(llm_inputs, conversation_history)
    /\ events' = events \o Emit(stream_callback, "iteration",
                                IterationEvent(iteration + 1, max_iterations))
    /\ sent' = Deliver(Emit(stream_callback, "iteration",
                            IterationEvent(iteration + 1, max_iterations)))
    /\ timeline' = timeline \o <<"llm_start", "llm_raise">>
    /\ pc' = "raised"
    /\ exc' = "ModelError"
    /\ UNCHANGED <<db, mcp, wf, pair, max_iterations, stream_callback, conversation_history, observations,
                   final_answer, result, tool_invocations,
                   parse_in, parse_out, tool_in, tool_out, task, sink, ws, kb, plan>>

\* lines 492-515: after the loop
Finish ==
    /\ pc = "loop"
    /\ final_answer # Nothing \/ ~LoopCondition(iteration, max_iterations)
    /\ LET answer == IF final_answer = Nothing
                     THEN ExhaustedAnswer(iteration, observations) ELSE final_answer
       IN  /\ final_answer' = answer
           /\ IF SinkFails
              THEN \* line 504: the complete event raises
                   /\ pc' = "raised"
                   /\ exc' = SinkExc(sink)
                   /\ UNCHANGED <<result, events, sent>>
              ELSE /\ pc' = "returned"
                   /\ exc' = exc
                   /\ result' = answer
                   /\ events' = events \o
                          (IF stream_callback THEN << CompleteEvent(task, answer) >>
                           ELSE <<>>)
                   /\ sent' = Deliver(IF stream_callback
                                      THEN << CompleteEvent(task, answer) >> ELSE <<>>)
    /\ UNCHANGED <<db, mcp, wf, pair, max_iterations, stream_callback, iteration, conversation_history,
                   observations, llm_inputs, tool_invocations,
                   parse_in, parse_out, tool_in, tool_out, task, sink, ws, kb,
                   timeline, plan>>

\* where MCPIncidentAgent.investigate of workflow.py is between its stages
WfPositions == {"connected", "context", "knowledge", "patterns", "reasoned", "fixed"}

\* the client goes away, or the connection breaks, while the run is suspended
Disconnect ==
    /\ stream_callback
    /\ sink = "up"
    /\ \/ pc \in {"idle", "planned", "loop"} \cup WfPositions
       \/ pc = "raised" /\ ws = "running"
    /\ ws \in {"off", "accepted", "running", "failed"}
    /\ sink' \in SinkFates \ {"up"}
    /\ UNCHANGED <<db, mcp, wf, pair, loopVars, max_iterations, stream_callback, parse_in, parse_out,
                   tool_in, tool_out, task, exc, ws, sent, kb, timeline, plan>>

(***************************************************************************)
(* main.py: analyze_incident_stream                                        *)
(***************************************************************************)
\* main.py lines 147-168: the issue is fetched and the start message sent
EndpointOpen ==
    /\ ws = "accepted"
    /\ pc = "idle"
    /\ \E fetched \in BOOLEAN, t \in Tasks :
         IF ~fetched
         THEN \* line 147: get_issue_details raises
              /\ ws' = "failed"
              /\ exc' = "FetchError"
              /\ UNCHANGED <<task, sent>>
         ELSE /\ task' = t
              /\ IF sink # "up"
                 THEN \* line 161: send_json raises
                      /\ ws' = "failed"
                      /\ exc' = SinkExc(sink)
                      /\ sent' = sent
                 ELSE /\ ws' = "running"
                      /\ exc' = exc
                      /\ sent' = Append(sent, [type |-> "start",
                                               content |-> [issue_id |-> t.issue_id,
                                                            error_message |-> t.error_message]])
    /\ UNCHANGED <<db, mcp, wf, pair, loopVars, max_iterations, stream_callback, parse_in, parse_out,
                   tool_in, tool_out, sink, kb, timeline, plan>>

\* main.py line 180: result["suggested_fixes"][0]["title"]
FirstFixTitle(res) ==
    LET fix == res.suggested_fixes.val[1]
    IN  IF \E kv \in fix : kv[1] = "title"
        THEN (CHOOSE kv \in fix : kv[1] = "title")[2]
        ELSE None

\* main.py line 177 without its test of the confidence
WorthStoringAnyConfidence(res) ==
    Len(res.suggested_fixes.val) > 0

\* main.py line 177: the condition of storing the incident
WorthStoring(res) ==
    /\ res.confidence.num * 10 > 7 * res.confidence.den
    /\ Len(res.suggested_fixes.val) > 0

\* main.py lines 171-193: investigate returned; the incident is stored when
\* the confidence is high, a failure of storing being printed only
EndpointAfter ==
    /\ ws = "running"
    /\ pc = "returned"
    /\ ws' = "done"
    /\ \E stored \in BOOLEAN :
         kb' = IF WorthStoring(result) /\ stored /\ FirstFixTitle(result) # None
               THEN Append(kb, [incident_id   |-> task.issue_id,
                                error_message |-> task.error_message,
                                root_cause    |-> result.root_cause,
                                fix           |-> FirstFixTitle(result)])
               ELSE kb
    /\ UNCHANGED <<db, mcp, wf, pair, loopVars, max_iterations, stream_callback, parse_in, parse_out,
                   tool_in, tool_out, task, sink, exc, sent, timeline, plan>>

\* the handler, were it to close the socket without the error message
EndpointHandleSilent ==
    /\ ws = "failed" \/ (ws = "running" /\ pc = "raised")
    /\ ws' = IF exc = "WebSocketDisconnect" THEN "disconnected" ELSE "closed"
    /\ UNCHANGED <<db, mcp, wf, pair, loopVars, max_iterations, stream_callback, parse_in, parse_out,
                   tool_in, tool_out, task, sink, exc, sent, kb, timeline, plan>>

\* main.py lines 195-209: an exception reached the endpoint
EndpointHandle ==
    /\ ws = "failed" \/ (ws = "running" /\ pc = "raised")
    /\ IF exc = "WebSocketDisconnect"
       THEN \* lines 195-196
            /\ ws' = "disconnected"
            /\ sent' = sent
       ELSE \* lines 198-209: the error message is sent, a failure of sending
            \* it is passed over, and the socket is closed
            /\ ws' = "closed"
            /\ sent' = IF sink = "up"
                       THEN Append(sent, [type |-> "error", content |-> [error |-> exc]])
                       ELSE sent
    /\ UNCHANGED <<db, mcp, wf, pair, loopVars, max_iterations, stream_callback, parse_in, parse_out,
                   tool_in, tool_out, task, sink, exc, kb, timeline, plan>>

Next == Begin \/ Iterate \/ ModelRaises \/ Finish \/ Disconnect

Spec == Init /\ [][Next]_vars

(***************************************************************************)
(* investigate_with_planning: the plan, then investigate.                  *)
(***************************************************************************)
InitPlan ==
    /\ pc = "planning"
    /\ max_iterations \in 1..MaxPlanIterations
    /\ ws = "off"
    /\ stream_callback \in BOOLEAN
    /\ iteration = 0
    /\ conversation_history = <<>>
    /\ observations = <<>>
    /\ final_answer = Nothing
    /\ result = Nothing
    /\ events = <<>>
    /\ llm_inputs = <<>>
    /\ tool_invocations = <<>>
    /\ parse_in = <<>>
    /\ parse_out = Nothing
    /\ tool_in = Nothing
    /\ tool_out = Nothing
    /\ task = Nothing
    /\ sink = "up"
    /\ exc = "none"
    /\ sent = <<>>
    /\ kb = <<>>
    /\ timeline = <<>>
    /\ plan = Nothing
    /\ mcp = Nothing
    /\ db = Nothing
    /\ wf = Nothing
    /\ pair = Nothing

NextPlan == PlanInvestigation \/ Begin \/ Iterate \/ ModelRaises \/ Finish \/ Disconnect

SpecPlan == InitPlan /\ [][NextPlan]_vars

(***************************************************************************)
(* analyze_incident_stream: a websocket session around investigate.        *)
(***************************************************************************)
InitEndpoint ==
    /\ pc = "idle"
    /\ max_iterations \in 1..MaxIterations
    /\ ws = "accepted"
    /\ stream_callback = TRUE
    /\ iteration = 0
    /\ conversation_history = <<>>
    /\ observations = <<>>
    /\ final_answer = Nothing
    /\ result = Nothing
    /\ events = <<>>
    /\ llm_inputs = <<>>
    /\ tool_invocations = <<>>
    /\ parse_in = <<>>
    /\ parse_out = Nothing
    /\ tool_in = Nothing
    /\ tool_out = Nothing
    /\ task = Nothing
    /\ sink = "up"
    /\ exc = "none"
    /\ sent = <<>>
    /\ kb = <<>>
    /\ timeline = <<>>
    /\ plan = Nothing
    /\ mcp = Nothing
    /\ db = Nothing
    /\ wf = Nothing
    /\ pair = Nothing

NextEndpoint ==
    \/ EndpointOpen
    \/ Begin
    \/ Iterate
    \/ ModelRaises
    \/ Finish
    \/ Disconnect
    \/ EndpointAfter
    \/ EndpointHandle

SpecEndpoint == InitEndpoint /\ [][NextEndpoint]_vars

(***************************************************************************)
(* _parse_llm_response on its own: every generated response is parsed.     *)
(***************************************************************************)
InitParse ==
    /\ pc = "idle"
    /\ max_iterations = 1
    /\ stream_callback = FALSE
    /\ iteration = 0
    /\ conversation_history = <<>>
    /\ observations = <<>>
    /\ final_answer = Nothing
    /\ result = Nothing
    /\ events = <<>>
    /\ llm_inputs = <<>>
    /\ tool_invocations = <<>>
    /\ parse_in \in Responses \cup LoopResponses \cup MalformedResponses
    /\ parse_out = Nothing
    /\ tool_in = Nothing
    /\ tool_out = Nothing
    /\ task = Nothing
    /\ sink = "up"
    /\ exc = "none"
    /\ ws = "off"
    /\ sent = <<>>
    /\ kb = <<>>
    /\ timeline = <<>>
    /\ plan = Nothing
    /\ mcp = Nothing
    /\ db = Nothing
    /\ wf = Nothing
    /\ pair = Nothing

ParseStep ==
    /\ parse_out = Nothing
    /\ parse_out' = _parse_llm_response(parse_in)
    /\ UNCHANGED <<loopVars, envVars, max_iterations, stream_callback, parse_in,
                   tool_in, tool_out>>

NextParse == ParseStep

SpecParse == InitParse /\ [][NextParse]_vars

(***************************************************************************)
(* _execute_tool on its own: called with a tool name and arguments.        *)
(***************************************************************************)
ToolNameInputs == { <<t>> : t \in ToolNames } \cup
                  { <<"nonexistent_tool">>, <<"w1">>, <<>> }
ArgumentInputs == { EmptyDict,
                    JV("object", {<<"issue_id", <<"X">>>>}),
                    JV("object", {<<"error_message", <<"w1">>>>}),
                    JV("object", {<<"issue_id", <<"X">>>>, <<"verbose", <<"w1">>>>}),
                    JV("array", << {<<"title", <<"Add null guard">>>>} >>),
                    JV("int", 85) }

InitTool ==
    /\ pc = "idle"
    /\ max_iterations = 1
    /\ stream_callback \in BOOLEAN
    /\ iteration = 0
    /\ conversation_history = <<>>
    /\ observations = <<>>
    /\ final_answer = Nothing
    /\ result = Nothing
    /\ events = <<>>
    /\ llm_inputs = <<>>
    /\ tool_invocations = <<>>
    /\ parse_in = <<>>
    /\ parse_out = Nothing
    /\ tool_in \in [tool_name : ToolNameInputs, arguments : ArgumentInputs]
    /\ tool_out = Nothing
    /\ task = Nothing
    /\ sink \in (IF stream_callback THEN {"up", "broken"} ELSE {"up"})
    /\ exc = "none"
    /\ ws = "off"
    /\ sent = <<>>
    /\ kb = <<>>
    /\ timeline = <<>>
    /\ plan = Nothing
    /\ mcp = Nothing
    /\ db = Nothing
    /\ wf = Nothing
    /\ pair = Nothing

ExecuteStep ==
    /\ tool_in # Nothing
    /\ tool_out = Nothing
    /\ \E outcome \in ToolOutcomes, fate \in SinkFates :
         LET late == After(sink, fate)
             ex   == _execute_tool(stream_callback, sink = "up", late = "up",
                                   tool_in.tool_name, tool_in.arguments, outcome)
         IN  /\ ~stream_callback => fate = "up"
             /\ tool_out' = IF ex.raised
                            THEN Raised(SinkExc(IF sink = "up" THEN late ELSE sink))
                            ELSE ex.result
             /\ events' = events \o ex.emitted
             /\ tool_invocations' = tool_invocations \o ex.invoked
             /\ timeline' = timeline \o ex.steps
             /\ sink' = late
    /\ UNCHANGED <<db, mcp, wf, pair, pc, max_iterations, stream_callback, iteration, conversation_history,
                   observations, final_answer, result, llm_inputs,
                   parse_in, parse_out, tool_in, task, exc, ws, sent, kb, plan>>

NextTool == ExecuteStep

SpecTool == InitTool /\ [][NextTool]_vars

(***************************************************************************)
(* Two AutonomousMCPAgent instances, each running investigate, interleaved *)
(* at their awaits.                                                        *)
(***************************************************************************)
Instances == {1, 2}

\* the object that holds conversation_history, were it an attribute of the class
HistoryHolderShared(self) == 1

\* line 51: conversation_history is an attribute of the instance
HistoryHolder(self) == self

\* what the model of an instance does when it is invoked
PairReplies ==
    { [kind |-> "response", text |-> r, outcome |-> "value"] :
        r \in {RThink, RToolCall, RAnswer85, RToolDeep} } \cup
    { [kind |-> "raise", text |-> <<>>, outcome |-> "value"] }

\* lines 403-412: the state of a run when it enters the loop
LoopStart ==
    [pc |-> "loop", iteration |-> 0,
     history |-> << SystemMessage(<<"<react prompt>">>),
                    HumanMessage(<<"Begin investigating issue">>) >>,
     observations |-> <<>>, final_answer |-> Nothing, result |-> Nothing]

\* lines 414-490: one iteration, run on the state st of an instance whose
\* callback is not set
LoopStep(st, reply) ==
    LET n      == st.iteration + 1
        said   == AppendEntry(st.history, AIMessage(reply.text))
        parsed == _parse_llm_response(reply.text)
        did    == Dispatch(parsed, n, said, st.observations, reply.outcome, "up", "up")
        nudged == IF ~did.raised /\ did.answer = Nothing
                     /\ NudgeDue(n, max_iterations)
                  THEN Append(did.history, NudgeEntry) ELSE did.history
    IN  IF reply.kind = "raise"
        THEN [st EXCEPT !.pc = "raised", !.iteration = n]
        ELSE [pc |-> IF did.raised THEN "raised" ELSE "loop",
              iteration |-> n, history |-> nudged, observations |-> did.obs,
              final_answer |-> did.answer, result |-> Nothing]

\* lines 492-515: the return of investigate, on the state st of an instance
AfterLoop(st) ==
    LET answer == IF st.final_answer = Nothing
                  THEN ExhaustedAnswer(st.iteration, st.observations)
                  ELSE st.final_answer
    IN  [st EXCEPT !.pc = "returned", !.final_answer = answer, !.result = answer]

\* the state of instance self as its code sees it
View(self) ==
    [pc           |-> pair.agent[self].pc,
     iteration    |-> pair.agent[self].iteration,
     history      |-> pair.history[HistoryHolder(self)],
     observations |-> pair.agent[self].observations,
     final_answer |-> pair.agent[self].final_answer,
     result       |-> pair.agent[self].result]

\* the state st written back to instance self, its model having replied
Stored(self, st, replies) ==
    [agent   |-> [pair.agent EXCEPT ![self] =
                    [pc |-> st.pc, iteration |-> st.iteration,
                     observations |-> st.observations,
                     final_answer |-> st.final_answer,
                     result |-> st.result, replies |-> replies]],
     history |-> [pair.history EXCEPT ![HistoryHolder(self)] = st.history]]

InitPair ==
    /\ pc = "idle"
    /\ max_iterations \in 1..MaxPairIterations
    /\ ws = "off"
    /\ stream_callback = FALSE
    /\ iteration = 0
    /\ conversation_history = <<>>
    /\ observations = <<>>
    /\ final_answer = Nothing
    /\ result = Nothing
    /\ events = <<>>
    /\ llm_inputs = <<>>
    /\ tool_invocations = <<>>
    /\ parse_in = <<>>
    /\ parse_out = Nothing
    /\ tool_in = Nothing
    /\ tool_out = Nothing
    /\ task = Nothing
    /\ sink = "up"
    /\ exc = "none"
    /\ sent = <<>>
    /\ kb = <<>>
    /\ timeline = <<>>
    /\ plan = Nothing
    /\ mcp = Nothing
    /\ db = Nothing
    /\ wf = Nothing
    /\ pair = [agent   |-> [a \in Instances |->
                              [pc |-> "idle", iteration |-> 0, observations |-> <<>>,
                               final_answer |-> Nothing, result |-> Nothing,
                               replies |-> <<>>]],
               history |-> [a \in Instances |-> <<>>]]

pairFrame == <<db, mcp, wf, loopVars, max_iterations, stream_callback, parse_in, parse_out,
               tool_in, tool_out, task, sink, exc, ws, sent, kb, timeline, plan>>

\* lines 379-412, on instance self
PairBegin(self) ==
    /\ pair.agent[self].pc = "idle"
    /\ pair' = Stored(self, LoopStart, <<>>)
    /\ UNCHANGED pairFrame

\* lines 414-490, on instance self
PairIterate(self) ==
    /\ pair.agent[self].pc = "loop"
    /\ pair.agent[self].final_answer = Nothing
    /\ LoopCondition(pair.agent[self].iteration, max_iterations)
    /\ \E reply \in PairReplies :
         pair' = Stored(self, LoopStep(View(self), reply),
                        Append(pair.agent[self].replies, reply))
    /\ UNCHANGED pairFrame

\* lines 492-515, on instance self
PairFinish(self) ==
    /\ pair.agent[self].pc = "loop"
    /\ \/ pair.agent[self].final_answer # Nothing
       \/ ~LoopCondition(pair.agent[self].iteration, max_iterations)
    /\ pair' = Stored(self, AfterLoop(View(self)), pair.agent[self].replies)
    /\ UNCHANGED pairFrame

NextPair == \E self \in Instances : PairBegin(self) \/ PairIterate(self) \/ PairFinish(self)

SpecPair == InitPair /\ [][NextPair]_vars

(***************************************************************************)
(* workflow.py: MCPIncidentAgent, the fixed sequence of stages.            *)
(***************************************************************************)
\* lines 77-82: the data of a step
StepData(step, tool, output) == [step |-> step, tool |-> tool, output |-> output]

\* lines 63-92, _emit_step called for each of steps in turn: a step is
\* collected, then sent to the callback when one is set; the call the
\* callback raises on ends the sequence.  s is the state of the callback
EmitSteps(steps, callback, s) ==
    IF ~callback \/ steps = <<>>
    THEN [raised |-> FALSE, exc |-> "none", collected |-> steps, delivered |-> <<>>,
          steps |-> <<>>]
    ELSE IF s = "up"
    THEN [raised |-> FALSE, exc |-> "none", collected |-> steps,
          delivered |-> [i \in 1..Len(steps) |-> [type |-> "step", content |-> steps[i]]],
          steps |-> <<>>]
    ELSE [raised |-> TRUE, exc |-> SinkExc(s), collected |-> <<steps[1]>>,
          delivered |-> <<>>, steps |-> <<>>]

\* a step emitted inside a try whose handlers emit the steps that follow it
\* in chain: with a callback that raises, every one of them is attempted and
\* collected, and the exception of the last leaves the method
EmitChain(chain, callback, s) ==
    IF ~callback \/ s = "up"
    THEN EmitSteps(<<chain[1]>>, callback, s)
    ELSE [raised |-> TRUE, exc |-> SinkExc(s), collected |-> chain, delivered |-> <<>>,
          steps |-> <<>>]

\* awaits one after the other: the first that raises ends the sequence
RECURSIVE Chain(_)
Chain(parts) ==
    IF parts = <<>>
    THEN [raised |-> FALSE, exc |-> "none", collected |-> <<>>, delivered |-> <<>>,
          steps |-> <<>>]
    ELSE IF parts[1].raised
    THEN [raised |-> TRUE, exc |-> parts[1].exc, collected |-> parts[1].collected,
          delivered |-> parts[1].delivered, steps |-> parts[1].steps]
    ELSE LET rest == Chain(Tail(parts))
         IN  [raised |-> rest.raised, exc |-> rest.exc,
              collected |-> parts[1].collected \o rest.collected,
              delivered |-> parts[1].delivered \o rest.delivered,
              steps |-> parts[1].steps \o rest.steps]

\* dict.get(key, default) on a JSON mapping
GetOr(obj, key, default) ==
    IF \E kv \in obj.val : kv[1] = key
    THEN (CHOOSE kv \in obj.val : kv[1] = key)[2]
    ELSE default

\* lines 155-161: the tools _call_mcp_tool knows
WfToolNames == {"get_sentry_issue_details", "get_stacktrace", "search_knowledge_base",
                "analyze_error_frequency", "get_user_impact"}

\* tools/tools.py: what a tool returns.  search_knowledge_base returns the
\* list of incidents, the empty list when the knowledge base fails (lines
\* 137-139); the others a mapping, an error mapping when Sentry fails
SimilarIncident ==
    {<<"incident_id", <<"INC-1">>>>, <<"fix", <<"Add null guard">>>>, <<"similarity", <<"90">>>>}
WfToolReturn(tool_name, outcome) ==
    IF tool_name = "search_knowledge_base"
    THEN IF outcome = "value" THEN JV("array", <<SimilarIncident>>) ELSE EmptyList
    ELSE ToolReturn(tool_name, outcome)

\* line 174: json.dumps(result, indent=2)[:500]
WfPreview(value) ==
    IF value.jtype = "object" THEN Dumps(value)
    ELSE IF value.val = <<>> THEN <<"[]">> ELSE <<"[{...}]">>

\* lines 122-177.  importable: whether the import of tools.tools (lines
\* 147-153) succeeds; s0, s1: the callback before and after the tool ran
_call_mcp_tool(callback, s0, s1, tool_name, outcome, importable) ==
    LET calling == EmitSteps(<<StepData(<<"Calling MCP tool:", SP, tool_name>>, "MCP",
                                        <<>>)>>, callback, s0)
        value   == WfToolReturn(tool_name, outcome)
        told    == EmitSteps(<<StepData(<<"Tool result:", SP, tool_name>>, "MCP",
                                        WfPreview(value))>>, callback, s1)
    IN  IF calling.raised
        THEN [raised |-> TRUE, exc |-> calling.exc, value |-> None,
              collected |-> calling.collected, delivered |-> <<>>, steps |-> <<>>]
        ELSE IF ~importable
        THEN [raised |-> TRUE, exc |-> "ImportError", value |-> None,
              collected |-> calling.collected, delivered |-> calling.delivered,
              steps |-> <<>>]
        ELSE IF tool_name \notin WfToolNames
        THEN [raised |-> TRUE, exc |-> "ValueError", value |-> None,
              collected |-> calling.collected, delivered |-> calling.delivered,
              steps |-> <<>>]
        ELSE \* line 169: the tool is awaited
             [raised |-> told.raised, exc |-> told.exc, value |-> value,
              collected |-> calling.collected \o told.collected,
              delivered |-> calling.delivered \o told.delivered,
              steps |-> ToolCallSteps]

\* lines 95-120
_connect_mcp(callback, s0, s1) ==
    LET first   == EmitSteps(<<StepData(<<"Connecting to MCP server...">>, "MCP", <<>>)>>,
                             callback, s0)
        second  == EmitSteps(<<StepData(<<"MCP server connected">>, "MCP",
                                        <<"Ready to call tools">>)>>, callback, s1)
        handler == EmitSteps(<<StepData(<<"MCP connection failed:", SP, second.exc>>, "MCP",
                                        <<"Falling back to direct tool calls">>)>>,
                             callback, s1)
    IN  IF first.raised \/ ~second.raised
        THEN Chain(<<first, second>>)
        ELSE [raised |-> TRUE,
              exc |-> IF handler.raised THEN handler.exc ELSE second.exc,
              collected |-> first.collected \o second.collected \o handler.collected,
              delivered |-> first.delivered \o handler.delivered,
              steps |-> <<>>]

\* lines 592-601: the state investigate starts with
InitialState(t) ==
    [issue_id          |-> t.issue_id,
     error_message     |-> t.error_message,
     steps             |-> <<>>,
     context           |-> [details |-> None, stacktrace |-> None,
                            frequency |-> None, impact |-> None],
     root_cause        |-> <<>>,
     confidence        |-> Ratio(0, 1),
     suggested_fixes   |-> EmptyList,
     similar_incidents |-> EmptyList,
     analysis_id       |-> None]

\* lines 179-212
_fetch_issue_context(st, callback, s0, s1, o1, o2, importable) ==
    LET start      == EmitSteps(<<StepData(<<"Fetching issue context from Sentry...">>,
                                           "MCP", <<>>)>>, callback, s0)
        details    == _call_mcp_tool(callback, s0, s1, "get_sentry_issue_details", o1,
                                     importable)
        stacktrace == _call_mcp_tool(callback, s1, s1, "get_stacktrace", o2, TRUE)
        done       == EmitSteps(<<StepData(<<"Issue context retrieved">>, None,
                                  <<"Error:", SP>> \o
                                  (IF details.raised THEN <<>>
                                   ELSE GetOr(details.value, "title", <<"Unknown">>)))>>,
                                callback, s1)
        all        == Chain(<<start, details, stacktrace, done>>)
    IN  [raised |-> all.raised, exc |-> all.exc, steps |-> all.steps,
         collected |-> all.collected, delivered |-> all.delivered,
         state |-> IF all.raised THEN st
                   ELSE [st EXCEPT !.context.details = details.value,
                                   !.context.stacktrace = stacktrace.value]]

\* lines 214-252
_search_knowledge(st, callback, s0, s1, o) ==
    LET start   == EmitSteps(<<StepData(<<"Searching knowledge base for similar incidents...">>,
                                        "RAG", <<>>)>>, callback, s0)
        similar == _call_mcp_tool(callback, s0, s1, "search_knowledge_base", o, TRUE)
        done    == EmitSteps(<<IF ~similar.raised /\ similar.value.val # <<>>
                               THEN StepData(<<"Found similar incidents">>, "RAG",
                                             <<"Similarity scores:", SP, "90", "%">>)
                               ELSE StepData(<<"No similar incidents found">>, "RAG",
                                             <<"This may be a new type of error">>)>>,
                             callback, s1)
        all     == Chain(<<start, similar, done>>)
    IN  [raised |-> all.raised, exc |-> all.exc, steps |-> all.steps,
         collected |-> all.collected, delivered |-> all.delivered,
         state |-> IF similar.raised THEN st
                   ELSE [st EXCEPT !.similar_incidents = similar.value]]

\* lines 254-287
_analyze_patterns(st, callback, s0, s1, o1, o2) ==
    LET start     == EmitSteps(<<StepData(<<"Analyzing error patterns and user impact...">>,
                                          "MCP", <<>>)>>, callback, s0)
        frequency == _call_mcp_tool(callback, s0, s1, "analyze_error_frequency", o1, TRUE)
        impact    == _call_mcp_tool(callback, s1, s1, "get_user_impact", o2, TRUE)
        done      == EmitSteps(<<StepData(<<"Pattern analysis complete">>, None,
                                 <<"Trend:", SP>> \o
                                 (IF frequency.raised THEN <<>>
                                  ELSE GetOr(frequency.value, "trend", <<"unknown">>)))>>,
                               callback, s1)
        all       == Chain(<<start, frequency, impact, done>>)
    IN  [raised |-> all.raised, exc |-> all.exc, steps |-> all.steps,
         collected |-> all.collected, delivered |-> all.delivered,
         state |-> IF all.raised THEN st
                   ELSE [st EXCEPT !.context.frequency = frequency.value,
                                   !.context.impact = impact.value]]

\* what llm.ainvoke does in a stage: it raises, or it returns this text
ModelReply(raises, content) == [raises |-> raises, content |-> content]
ReasonReplies == { ModelReply(TRUE, <<>>),
                   ModelReply(FALSE, <<JAnalysisTok>>),
                   ModelReply(FALSE, <<JAnalysisBareTok>>),
                   ModelReply(FALSE, <<"85">>),
                   ModelReply(FALSE, <<"w1", SP, "w2">>) }
FixReplies == { ModelReply(TRUE, <<>>),
                ModelReply(FALSE, <<JFixTok>>),
                ModelReply(FALSE, <<FENCE, "json", NL, JFixTok, NL, FENCE>>),
                ModelReply(FALSE, <<"w1", SP, JFixTok>>),
                ModelReply(FALSE, <<JObjTok>>),
                ModelReply(FALSE, <<"w1", SP, "w2">>) }

\* lines 397-400: the handler of the root cause stage keeps the failure in
\* the state
ReasonFailure(st, e) ==
    [raised |-> FALSE, exc |-> "none",
     state |-> [st EXCEPT !.root_cause = <<"Analysis failed:", SP, e>>,
                          !.confidence = Ratio(0, 1)]]

ReasonFailedStep(e) ==
    StepData(<<"Root cause analysis failed">>, "AI", <<"Error:", SP, e>>)

\* lines 289-408
_reason_about_root_cause(st, llm, reply, callback, s0, s1) ==
    LET start  == EmitSteps(<<StepData(<<"AI analyzing root cause...">>, "AI", <<>>)>>,
                            callback, s0)
        loaded == JsonLoads(reply.content)
        \* lines 362-396: the body of the try up to the step it emits
        body   ==
            IF ~llm
            THEN [exc |-> "none",
                  state |-> [st EXCEPT
                       !.root_cause = <<"Network timeout during large payload processing">>,
                       !.confidence = Ratio(85, 100)],
                  step |-> StepData(<<"Root cause identified (mock)">>, "AI",
                                    <<"Mock analysis">>)]
            ELSE IF reply.raises
            THEN [exc |-> "ModelError", state |-> st, step |-> None]
            ELSE IF ~loaded.ok
            THEN IF loaded.exc = "JSONDecodeError"
                 THEN [exc |-> "none",
                       state |-> [st EXCEPT !.root_cause = reply.content,
                                            !.confidence = Ratio(1, 2)],
                       step |-> StepData(<<"Root cause analysis completed (non-structured)">>,
                                         "AI", reply.content)]
                 ELSE [exc |-> loaded.exc, state |-> st, step |-> None]
            ELSE IF loaded.val.jtype # "object"
            THEN [exc |-> "TypeError", state |-> st, step |-> None]
            ELSE IF \E key \in {"root_cause", "confidence", "reasoning"} :
                       \A kv \in loaded.val.val : kv[1] # key
            THEN [exc |-> "KeyError", state |-> st, step |-> None]
            ELSE [exc |-> "none",
                  state |-> [st EXCEPT
                       !.root_cause = GetOr(loaded.val, "root_cause", None),
                       !.confidence =
                            Ratio(IntOf(GetOr(loaded.val, "confidence", None)[1]), 100)],
                  step |-> StepData(<<"Root cause identified">>, "AI",
                                    GetOr(loaded.val, "root_cause", None))]
        caught == IF body.exc # "none" THEN body.exc ELSE SinkExc(s1)
        tried  == IF body.exc # "none"
                  THEN EmitSteps(<<ReasonFailedStep(caught)>>, callback, s1)
                  ELSE EmitChain(<<body.step, ReasonFailedStep(caught)>>, callback, s1)
        all    == Chain(<<start, tried>>)
        \* the exception of the body, or of the step it emits, is handled
        handled == ReasonFailure(st, caught)
        \* line 373: the model is awaited
        called == IF ~llm THEN <<>>
                  ELSE IF reply.raises THEN <<"llm_start", "llm_raise">>
                  ELSE ModelCallSteps
    IN  IF start.raised
        THEN [raised |-> TRUE, exc |-> start.exc, state |-> st,
              collected |-> start.collected, delivered |-> <<>>, steps |-> <<>>]
        ELSE IF body.exc = "none" /\ ~tried.raised
        THEN [raised |-> FALSE, exc |-> "none", state |-> body.state,
              collected |-> all.collected, delivered |-> all.delivered,
              steps |-> called]
        ELSE [raised |-> handled.raised \/ tried.raised,
              exc |-> IF tried.raised THEN tried.exc ELSE handled.exc,
              state |-> handled.state,
              collected |-> all.collected, delivered |-> all.delivered,
              steps |-> called]

\* lines 467-490: the fixes used when there is no model
MockFixes ==
    JV("array", << {<<"title", <<"Increase HTTP timeout settings">>>>},
                   {<<"title", <<"Add request size validation">>>>} >>)

\* lines 558-564
FailedFixes(e) ==
    JV("array", << {<<"title", <<"Fix generation failed:", SP, e>>>>} >>)

\* lines 542-548
ManualFixes == JV("array", << {<<"title", <<"Manual investigation required">>>>} >>)

\* the JSON texts that denote a list of mappings with a title
TitledToks == {JFixTok}
\* the JSON-looking texts that hold an opening and a closing bracket
ArrayToks == {JFixTok, JFindTok, JBadArrTok}

\* str.replace(old, "") for an old of two tokens
RECURSIVE ReplacePair(_, _, _)
ReplacePair(s, a, b) ==
    IF Len(s) < 2 THEN s
    ELSE IF s[1] = a /\ s[2] = b THEN ReplacePair(SubSeq(s, 3, Len(s)), a, b)
    ELSE <<s[1]>> \o ReplacePair(Tail(s), a, b)

\* lines 497-503: the code fence around the JSON is removed
Unfenced(text) ==
    LET content == Strip(text)
    IN  IF Len(content) >= 2 /\ content[1] = FENCE /\ content[2] = "json"
        THEN Strip(Replace(ReplacePair(content, FENCE, "json"), FENCE))
        ELSE IF StartsWith(content, FENCE)
        THEN Strip(Replace(content, FENCE))
        ELSE content

\* lines 524-526: re.search of the shortest bracketed text, then json.loads of it
BracketMatch(text) ==
    IF \E i \in 1..Len(text) : text[i] \in ArrayToks
    THEN <<text[Min({i \in 1..Len(text) : text[i] \in ArrayToks})]>>
    ELSE <<>>

FixesStep(name) == StepData(name, "AI", <<>>)
FixFailedStep(e) == StepData(<<"Fix generation failed">>, "AI", <<"Error:", SP, e>>)
ManualStep == StepData(<<"Generated fix suggestions (manual parsing required)">>, "AI", <<>>)

\* lines 410-572
_generate_fix_suggestions(st, llm, reply, callback, s0, s1) ==
    LET start   == EmitSteps(<<StepData(<<"Generating fix suggestions...">>, "AI", <<>>)>>,
                             callback, s0)
        strict  == JsonLoads(Unfenced(reply.content))
        found   == BracketMatch(reply.content)
        inner   == JsonLoads(found)
        sinkexc == SinkExc(s1)
        \* the body of the try: the fixes, and the steps its handlers emit one
        \* after the other when emitting raises
        body    ==
            IF ~llm
            THEN [exc |-> "none", fixes |-> MockFixes,
                  chain |-> <<FixesStep(<<"Generated fix suggestions (mock)">>),
                              FixFailedStep(sinkexc)>>]
            ELSE IF reply.raises
            THEN [exc |-> "ModelError", fixes |-> EmptyList, chain |-> <<>>]
            ELSE IF strict.ok
            THEN IF Unfenced(reply.content)[1] \in TitledToks
                 THEN [exc |-> "none", fixes |-> strict.val,
                       chain |-> <<FixesStep(<<"Generated fix suggestions">>),
                                   FixFailedStep(sinkexc)>>]
                 ELSE [exc |-> "TypeError", fixes |-> EmptyList, chain |-> <<>>]
            ELSE IF strict.exc # "JSONDecodeError"
            THEN [exc |-> strict.exc, fixes |-> EmptyList, chain |-> <<>>]
            ELSE IF found # <<>> /\ inner.ok /\ found[1] \in TitledToks
            THEN [exc |-> "none", fixes |-> inner.val,
                  chain |-> <<FixesStep(<<"Generated fix suggestions">>), ManualStep,
                              FixFailedStep(sinkexc)>>]
            ELSE [exc |-> "none", fixes |-> ManualFixes,
                  chain |-> <<ManualStep, FixFailedStep(sinkexc)>>]
        tried   == IF body.exc # "none"
                   THEN EmitSteps(<<FixFailedStep(body.exc)>>, callback, s1)
                   ELSE EmitChain(body.chain, callback, s1)
        all     == Chain(<<start, tried>>)
        \* line 493: the model is awaited
        called  == IF ~llm THEN <<>>
                   ELSE IF reply.raises THEN <<"llm_start", "llm_raise">>
                   ELSE ModelCallSteps
    IN  IF start.raised
        THEN [raised |-> TRUE, exc |-> start.exc, state |-> st,
              collected |-> start.collected, delivered |-> <<>>, steps |-> <<>>]
        ELSE [raised |-> tried.raised, exc |-> tried.exc, steps |-> called,
              state |-> [st EXCEPT !.suggested_fixes =
                            IF body.exc # "none" THEN FailedFixes(body.exc)
                            ELSE IF tried.raised THEN FailedFixes(sinkexc)
                            ELSE body.fixes],
              collected |-> all.collected, delivered |-> all.delivered]

\* lines 660-678: the handler of investigate emits a step and an error
\* message, then raises again
InvestigateFailed(e, callback, s) ==
    LET error_msg == <<"Investigation failed:", SP, e>>
        told      == EmitSteps(<<StepData(<<"Investigation failed">>, None, error_msg)>>,
                               callback, s)
    IN  [exc |-> IF told.raised THEN told.exc ELSE e,
         collected |-> told.collected,
         delivered |-> told.delivered \o
                       (IF callback /\ ~told.raised
                        THEN << [type |-> "error", content |-> [error |-> error_msg]] >>
                        ELSE <<>>)]

\* lines 648-656: the complete message of the workflow
WfCompleteMessage(st) ==
    [type |-> "complete",
     content |-> [issue_id          |-> st.issue_id,
                  error_message     |-> st.error_message,
                  steps             |-> st.steps,
                  context           |-> st.context,
                  root_cause        |-> st.root_cause,
                  confidence        |-> st.confidence,
                  suggested_fixes   |-> st.suggested_fixes,
                  similar_incidents |-> st.similar_incidents,
                  analysis_id       |-> st.analysis_id,
                  status            |-> "success"]]

\* lines 603-623 without the handler of lines 660-678 ending investigate: the
\* next stage runs whatever the stage did
StageDoneGoesOn(to, out, late) ==
    LET failed == InvestigateFailed(out.exc, stream_callback, late)
        msgs   == out.delivered \o (IF out.raised THEN failed.delivered ELSE <<>>)
    IN  /\ pc' = to
        /\ exc' = IF out.raised THEN failed.exc ELSE exc
        /\ wf' = [wf EXCEPT !.state = out.state,
                            !.collected_steps =
                                @ \o out.collected \o
                                (IF out.raised THEN failed.collected ELSE <<>>)]
        /\ events' = events \o msgs
        /\ sent' = Deliver(msgs)
        /\ timeline' = timeline \o out.steps
        /\ sink' = late

\* lines 603-623 and 660-678: a stage has run; investigate goes on to the
\* next one, or its handler runs and the exception leaves it
StageDone(to, out, late) ==
    LET failed == InvestigateFailed(out.exc, stream_callback, late)
        msgs   == out.delivered \o (IF out.raised THEN failed.delivered ELSE <<>>)
    IN  /\ pc' = IF out.raised THEN "raised" ELSE to
        /\ exc' = IF out.raised THEN failed.exc ELSE exc
        /\ wf' = [wf EXCEPT !.state = out.state,
                            !.collected_steps =
                                @ \o out.collected \o
                                (IF out.raised THEN failed.collected ELSE <<>>)]
        /\ events' = events \o msgs
        /\ sent' = Deliver(msgs)
        /\ timeline' = timeline \o out.steps
        /\ sink' = late

\* what investigate of workflow.py leaves alone
wfFrame == <<db, mcp, pair, max_iterations, stream_callback, iteration, conversation_history,
             observations, final_answer, llm_inputs, tool_invocations,
             parse_in, parse_out, tool_in, tool_out, ws, kb, plan>>

\* lines 574-607: the state is initialised and _connect_mcp runs
WfConnect ==
    /\ wf # Nothing
    /\ pc = "idle"
    /\ ws \in {"off", "running"}
    /\ \E t \in (IF task = Nothing THEN Tasks ELSE {task}), fate \in SinkFates :
         LET late == After(sink, fate)
             out  == _connect_mcp(stream_callback, sink, late)
         IN  /\ ~stream_callback => fate = "up"
             /\ task' = t
             /\ StageDone("connected",
                          [raised |-> out.raised, exc |-> out.exc, steps |-> out.steps,
                           state |-> InitialState(t),
                           collected |-> out.collected, delivered |-> out.delivered],
                          late)
    /\ UNCHANGED <<wfFrame, result>>

\* line 611
WfFetchIssueContext ==
    /\ pc = "connected"
    /\ \E o1 \in ToolOutcomes, o2 \in ToolOutcomes, importable \in BOOLEAN,
          fate \in SinkFates :
         LET late == After(sink, fate)
         IN  /\ ~stream_callback => fate = "up"
             /\ StageDone("context",
                          _fetch_issue_context(wf.state, stream_callback, sink, late,
                                               o1, o2, importable),
                          late)
    /\ UNCHANGED <<wfFrame, result, task>>

\* line 614
WfSearchKnowledge ==
    /\ pc = "context"
    /\ \E o \in ToolOutcomes, fate \in SinkFates :
         LET late == After(sink, fate)
         IN  /\ ~stream_callback => fate = "up"
             /\ StageDone("knowledge",
                          _search_knowledge(wf.state, stream_callback, sink, late, o),
                          late)
    /\ UNCHANGED <<wfFrame, result, task>>

\* line 617
WfAnalyzePatterns ==
    /\ pc = "knowledge"
    /\ \E o1 \in ToolOutcomes, o2 \in ToolOutcomes, fate \in SinkFates :
         LET late == After(sink, fate)
         IN  /\ ~stream_callback => fate = "up"
             /\ StageDone("patterns",
                          _analyze_patterns(wf.state, stream_callback, sink, late, o1, o2),
                          late)
    /\ UNCHANGED <<wfFrame, result, task>>

\* line 620
WfReasonAboutRootCause ==
    /\ pc = "patterns"
    /\ \E reply \in ReasonReplies, fate \in SinkFates :
         LET late == After(sink, fate)
         IN  /\ ~stream_callback => fate = "up"
             /\ StageDone("reasoned",
                          _reason_about_root_cause(wf.state, wf.llm, reply,
                                                   stream_callback, sink, late),
                          late)
    /\ UNCHANGED <<wfFrame, result, task>>

\* line 623
WfGenerateFixSuggestions ==
    /\ pc = "reasoned"
    /\ \E reply \in FixReplies, fate \in SinkFates :
         LET late == After(sink, fate)
         IN  /\ ~stream_callback => fate = "up"
             /\ StageDone("fixed",
                          _generate_fix_suggestions(wf.state, wf.llm, reply,
                                                    stream_callback, sink, late),
                          late)
    /\ UNCHANGED <<wfFrame, result, task>>

\* lines 625-658: the analysis is saved, a failure of saving being printed
\* only; the complete message is sent and the state returned
WfComplete ==
    /\ pc = "fixed"
    /\ \E saved \in BOOLEAN :
         LET st   == [wf.state EXCEPT !.analysis_id =
                         IF saved THEN <<"analysis-1">> ELSE None]
             told == IF stream_callback /\ sink # "up"
                     THEN [raised |-> TRUE, exc |-> SinkExc(sink), state |-> st,
                           collected |-> <<>>, delivered |-> <<>>, steps |-> <<>>]
                     ELSE [raised |-> FALSE, exc |-> "none", state |-> st,
                           collected |-> <<>>, steps |-> <<>>,
                           delivered |-> IF stream_callback
                                         THEN <<WfCompleteMessage(st)>> ELSE <<>>]
         IN  /\ StageDone("returned", told, sink)
             /\ result' = IF told.raised THEN result ELSE st
    /\ UNCHANGED <<wfFrame, task>>

InitWorkflow ==
    /\ pc = "idle"
    /\ max_iterations = 1
    /\ ws \in {"off", "accepted"}
    /\ stream_callback \in (IF ws = "off" THEN BOOLEAN ELSE {TRUE})
    /\ iteration = 0
    /\ conversation_history = <<>>
    /\ observations = <<>>
    /\ final_answer = Nothing
    /\ result = Nothing
    /\ events = <<>>
    /\ llm_inputs = <<>>
    /\ tool_invocations = <<>>
    /\ parse_in = <<>>
    /\ parse_out = Nothing
    /\ tool_in = Nothing
    /\ tool_out = Nothing
    /\ task = Nothing
    /\ sink = "up"
    /\ exc = "none"
    /\ sent = <<>>
    /\ kb = <<>>
    /\ timeline = <<>>
    /\ plan = Nothing
    /\ mcp = Nothing
    /\ db = Nothing
    /\ pair = Nothing
    /\ wf \in [llm : BOOLEAN, state : {Nothing}, collected_steps : {<<>>}]

NextWorkflow ==
    \/ EndpointOpen
    \/ WfConnect
    \/ WfFetchIssueContext
    \/ WfSearchKnowledge
    \/ WfAnalyzePatterns
    \/ WfReasonAboutRootCause
    \/ WfGenerateFixSuggestions
    \/ WfComplete
    \/ Disconnect
    \/ EndpointAfter
    \/ EndpointHandle

SpecWorkflow == InitWorkflow /\ [][NextWorkflow]_vars

(***************************************************************************)
(* agent/mcp_workflow.py: RealMCPIncidentAgent.  The timeline records the  *)
(* contexts of the connection being entered and left and every call_tool.  *)
(***************************************************************************)
\* lines 91-115: what the server does while _connect_mcp connects
ConnectOutcomes == {"connected", "spawn_fails", "initialize_fails", "list_tools_fails"}

\* line 469: what entering the returned session a second time does
ReenterOutcomes == {"entered", "raises"}

\* lines 83-123.  Both contexts are left when the return of line 115, or an
\* exception, leaves the two async with blocks
Real_connect_mcp(callback, s0, s1, outcome) ==
    LET first   == EmitSteps(<<StepData(<<"Starting MCP server...">>, "MCP", <<>>)>>,
                             callback, s0)
        second  == EmitSteps(<<StepData(<<"MCP server connected - 5 tools available">>, "MCP",
                                        <<"Tools:", SP, "...">>)>>, callback, s1)
        e       == IF outcome = "connected" THEN second.exc ELSE "McpError"
        handler == EmitSteps(<<StepData(<<"MCP connection failed:", SP, e>>, "MCP",
                                        <<"Falling back to direct tool calls">>)>>,
                             callback, s1)
        entered == IF outcome = "spawn_fails" THEN <<>>
                   ELSE <<"stdio_enter", "session_enter", "session_exit", "stdio_exit">>
    IN  IF first.raised
        THEN [raised |-> TRUE, exc |-> first.exc, delivered |-> <<>>, steps |-> <<>>,
              mcp_session |-> FALSE]
        ELSE IF outcome = "connected" /\ ~second.raised
        THEN \* line 115: return session
             [raised |-> FALSE, exc |-> "none",
              delivered |-> first.delivered \o second.delivered,
              steps |-> entered, mcp_session |-> TRUE]
        ELSE \* lines 117-123
             [raised |-> TRUE,
              exc |-> IF handler.raised THEN handler.exc ELSE e,
              delivered |-> first.delivered \o handler.delivered,
              steps |-> entered,
              mcp_session |-> outcome \in {"connected", "list_tools_fails"}]

\* lines 171-183: the mapping _call_mcp_tool returns for a failed call
ErrorResultOf(e, tool_name) ==
    JV("object", {<<"error", <<e>>>>, <<"tool", <<tool_name>>>>})

\* lines 125-183.  open: whether the transport of the session is open when
\* call_tool is invoked; o: what the server answers when it is
Real_call_mcp_tool(callback, s0, s1, tool_name, mcp_session, open, o) ==
    LET calling == EmitSteps(<<StepData(<<"Calling MCP tool:", SP, tool_name>>, "MCP",
                                        <<"{...}">>)>>, callback, s0)
        value   == WfToolReturn(tool_name, o)
        told    == EmitSteps(<<StepData(<<"Tool result:", SP, tool_name>>, "MCP",
                                        WfPreview(value))>>, callback, s1)
        \* line 151 raised, or the step of line 163 did
        e       == IF open THEN told.exc ELSE "ClosedResourceError"
        failed  == EmitSteps(<<StepData(<<"Tool error:", SP, tool_name>>, "MCP", <<e>>)>>,
                             callback, s1)
    IN  IF calling.raised
        THEN [raised |-> TRUE, exc |-> calling.exc, value |-> None,
              collected |-> <<>>, delivered |-> <<>>, steps |-> <<>>]
        ELSE IF ~mcp_session
        THEN \* lines 146-147
             [raised |-> TRUE, exc |-> "RuntimeError", value |-> None,
              collected |-> <<>>, delivered |-> calling.delivered, steps |-> <<>>]
        ELSE IF open /\ ~told.raised
        THEN [raised |-> FALSE, exc |-> "none", value |-> value,
              collected |-> <<>>, delivered |-> calling.delivered \o told.delivered,
              steps |-> <<"call_tool">>]
        ELSE \* lines 171-183
             [raised |-> failed.raised, exc |-> failed.exc,
              value |-> ErrorResultOf(e, tool_name),
              collected |-> <<>>, delivered |-> calling.delivered \o failed.delivered,
              steps |-> <<"call_tool">>]

\* lines 455-465: the state investigate starts with
RealInitialState(t) ==
    [issue_id          |-> t.issue_id,
     error_message     |-> t.error_message,
     steps             |-> <<>>,
     context           |-> [details |-> None, stacktrace |-> None,
                            frequency |-> None, impact |-> None],
     root_cause        |-> <<>>,
     confidence        |-> Ratio(0, 1),
     suggested_fixes   |-> EmptyList,
     similar_incidents |-> EmptyList]

\* a stage made of awaits one after the other, with the state it leaves
RealStage(parts, st, new) ==
    LET all == Chain(parts)
    IN  [raised |-> all.raised, exc |-> all.exc, delivered |-> all.delivered,
         steps |-> all.steps, state |-> IF all.raised THEN st ELSE new]

RealStep(step, tool, output, callback, s) ==
    LET told == EmitSteps(<<StepData(step, tool, output)>>, callback, s)
    IN  [raised |-> told.raised, exc |-> told.exc, collected |-> <<>>,
         delivered |-> told.delivered, steps |-> <<>>]

\* lines 186-213
Real_fetch_issue_context(st, callback, s0, s1, mcp_session, open, o1, o2) ==
    LET details    == Real_call_mcp_tool(callback, s0, s1, "get_sentry_issue_details",
                                         mcp_session, open, o1)
        stacktrace == Real_call_mcp_tool(callback, s1, s1, "get_stacktrace",
                                         mcp_session, open, o2)
    IN  RealStage(<< RealStep(<<"Fetching issue context from Sentry...">>, "MCP", <<>>,
                              callback, s0),
                     details, stacktrace,
                     RealStep(<<"Issue context retrieved">>, None,
                              <<"Error:", SP>> \o
                              (IF details.raised THEN <<>>
                               ELSE GetOr(details.value, "title", <<"Unknown">>)),
                              callback, s1) >>,
                  st,
                  [st EXCEPT !.context.details = details.value,
                             !.context.stacktrace = stacktrace.value])

\* lines 215-245
Real_search_knowledge(st, callback, s0, s1, mcp_session, open, o) ==
    LET similar == Real_call_mcp_tool(callback, s0, s1, "search_knowledge_base",
                                      mcp_session, open, o)
        \* line 231: anything but a list counts as no incident
        found   == IF ~similar.raised /\ similar.value.jtype = "array"
                   THEN similar.value ELSE EmptyList
    IN  RealStage(<< RealStep(<<"Searching knowledge base for similar incidents...">>,
                              "RAG", <<>>, callback, s0),
                     similar,
                     IF found.val # <<>>
                     THEN RealStep(<<"Found similar incidents">>, "RAG",
                                   <<"Similarity scores available">>, callback, s1)
                     ELSE RealStep(<<"No similar incidents found">>, "RAG",
                                   <<"This may be a new type of error">>, callback, s1) >>,
                  st,
                  [st EXCEPT !.similar_incidents = found])

\* lines 247-274
Real_analyze_patterns(st, callback, s0, s1, mcp_session, open, o1, o2) ==
    LET frequency == Real_call_mcp_tool(callback, s0, s1, "analyze_error_frequency",
                                        mcp_session, open, o1)
        impact    == Real_call_mcp_tool(callback, s1, s1, "get_user_impact",
                                        mcp_session, open, o2)
    IN  RealStage(<< RealStep(<<"Analyzing error patterns and user impact...">>, "MCP",
                              <<>>, callback, s0),
                     frequency, impact,
                     RealStep(<<"Pattern analysis complete">>, None,
                              <<"Trend:", SP>> \o
                              (IF frequency.raised THEN <<>>
                               ELSE GetOr(frequency.value, "trend", <<"unknown">>)),
                              callback, s1) >>,
                  st,
                  [st EXCEPT !.context.frequency = frequency.value,
                             !.context.impact = impact.value])

\* a model call of a stage that ended in exception e before any step
RealRaised(e, reply) ==
    [raised |-> TRUE, exc |-> e, collected |-> <<>>, delivered |-> <<>>,
     steps |-> IF reply.raises THEN <<"llm_start", "llm_raise">> ELSE ModelCallSteps]

RealModelCalled ==
    [raised |-> FALSE, exc |-> "none", collected |-> <<>>, delivered |-> <<>>,
     steps |-> ModelCallSteps]

\* lines 276-366: only JSONDecodeError is handled (line 355)
Real_reason_about_root_cause(st, reply, callback, s0, s1) ==
    LET start  == RealStep(<<"AI analyzing root cause...">>, "AI", <<>>, callback, s0)
        loaded == JsonLoads(reply.content)
    IN  IF reply.raises
        THEN RealStage(<<start, RealRaised("ModelError", reply)>>, st, st)
        ELSE IF ~loaded.ok
        THEN IF loaded.exc = "JSONDecodeError"
             THEN \* lines 355-364
                  RealStage(<< start, RealModelCalled,
                               RealStep(<<"Root cause analysis completed (non-structured)">>,
                                        "AI", reply.content, callback, s1) >>,
                            st,
                            [st EXCEPT !.root_cause = reply.content,
                                       !.confidence = Ratio(1, 2)])
             ELSE RealStage(<<start, RealRaised(loaded.exc, reply)>>, st, st)
        ELSE IF loaded.val.jtype # "object"
        THEN RealStage(<<start, RealRaised("TypeError", reply)>>, st, st)
        ELSE IF \E key \in {"root_cause", "confidence", "reasoning"} :
                   \A kv \in loaded.val.val : kv[1] # key
        THEN RealStage(<<start, RealRaised("KeyError", reply)>>, st, st)
        ELSE \* lines 344-353
             RealStage(<< start, RealModelCalled,
                          RealStep(<<"Root cause identified">>, "AI",
                                   GetOr(loaded.val, "root_cause", None), callback, s1) >>,
                       st,
                       [st EXCEPT
                          !.root_cause = GetOr(loaded.val, "root_cause", None),
                          !.confidence =
                             Ratio(IntOf(GetOr(loaded.val, "confidence", None)[1]), 100)])

\* lines 428-434
RealManualFixes(content) ==
    JV("array", << {<<"title", <<"Manual investigation required">>>>,
                    <<"steps", content>>} >>)

\* lines 368-436: only JSONDecodeError is handled (line 427)
Real_generate_fix_suggestions(st, reply, callback, s0, s1) ==
    LET start  == RealStep(<<"Generating fix suggestions...">>, "AI", <<>>, callback, s0)
        loaded == JsonLoads(reply.content)
    IN  IF reply.raises
        THEN RealStage(<<start, RealRaised("ModelError", reply)>>, st, st)
        ELSE IF ~loaded.ok
        THEN IF loaded.exc = "JSONDecodeError"
             THEN RealStage(<<start, RealModelCalled>>, st,
                            [st EXCEPT !.suggested_fixes = RealManualFixes(reply.content)])
             ELSE RealStage(<<start, RealRaised(loaded.exc, reply)>>, st, st)
        ELSE IF loaded.val.jtype = "int"
        THEN \* line 418: len of a number
             RealStage(<<start, RealRaised("TypeError", reply)>>, st, st)
        ELSE IF loaded.val.jtype = "object"
        THEN \* line 422: a key of the mapping is indexed with a string
             RealStage(<<start, RealRaised("TypeError", reply)>>, st, st)
        ELSE IF \E i \in 1..Len(loaded.val.val) :
                   \E key \in {"title", "confidence"} :
                       \A kv \in loaded.val.val[i] : kv[1] # key
        THEN RealStage(<<start, RealRaised("KeyError", reply)>>, st, st)
        ELSE RealStage(<< start, RealModelCalled,
                          RealStep(<<"Generated fix suggestions">>, "AI", <<>>,
                                   callback, s1) >>,
                       st, [st EXCEPT !.suggested_fixes = loaded.val])

RealFixReplies == FixReplies \cup {ModelReply(FALSE, <<JFixFullTok>>)}

\* lines 481-489: the complete message
RealCompleteMessage(st) ==
    [type |-> "complete",
     content |-> [issue_id          |-> st.issue_id,
                  error_message     |-> st.error_message,
                  steps             |-> st.steps,
                  context           |-> st.context,
                  root_cause        |-> st.root_cause,
                  confidence        |-> st.confidence,
                  suggested_fixes   |-> st.suggested_fixes,
                  similar_incidents |-> st.similar_incidents,
                  status            |-> "success"]]

\* lines 467-508: a part of investigate has run; inside says whether the
\* async with of line 469 is left by the exception
RealDone(to, out, late, inside) ==
    LET failed == InvestigateFailed(out.exc, stream_callback, late)
        msgs   == out.delivered \o (IF out.raised THEN failed.delivered ELSE <<>>)
    IN  /\ pc' = IF out.raised THEN "raised" ELSE to
        /\ exc' = IF out.raised THEN failed.exc ELSE exc
        /\ events' = events \o msgs
        /\ sent' = Deliver(msgs)
        /\ timeline' = timeline \o out.steps \o
                       (IF out.raised /\ inside THEN <<"session_exit">> ELSE <<>>)
        /\ sink' = late

realFrame == <<db, wf, pair, max_iterations, stream_callback, iteration,
               conversation_history, observations, final_answer, llm_inputs,
               tool_invocations, parse_in, parse_out, tool_in, tool_out, ws, kb, plan>>

\* whether the transport is open: stdio_client has been entered and not left
TransportOpen ==
    \E i \in 1..Len(timeline) :
        /\ timeline[i] = "stdio_enter"
        /\ \A j \in (i + 1)..Len(timeline) : timeline[j] # "stdio_exit"

\* lines 452-469: the state is initialised, _connect_mcp runs and the
\* session it returns is entered
RealConnect ==
    /\ mcp # Nothing
    /\ pc = "idle"
    /\ \E t \in Tasks, outcome \in ConnectOutcomes, again \in ReenterOutcomes,
          fate \in SinkFates :
         LET late == After(sink, fate)
             out  == Real_connect_mcp(stream_callback, sink, late, outcome)
             then == IF out.raised THEN out
                     ELSE IF again = "raises"
                     THEN [out EXCEPT !.raised = TRUE, !.exc = "McpError"]
                     ELSE [out EXCEPT !.steps = @ \o <<"session_enter">>]
         IN  /\ ~stream_callback => fate = "up"
             /\ task' = t
             /\ mcp' = [mcp_session |-> out.mcp_session, state |-> RealInitialState(t)]
             /\ RealDone("connected", then, late, FALSE)
    /\ UNCHANGED <<realFrame, result>>

\* line 471
RealFetchIssueContext ==
    /\ pc = "connected"
    /\ \E o1 \in ToolOutcomes, o2 \in ToolOutcomes, fate \in SinkFates :
         LET late == After(sink, fate)
             out  == Real_fetch_issue_context(mcp.state, stream_callback, sink, late,
                                              mcp.mcp_session, TransportOpen, o1, o2)
         IN  /\ ~stream_callback => fate = "up"
             /\ mcp' = [mcp EXCEPT !.state = out.state]
             /\ RealDone("context", out, late, TRUE)
    /\ UNCHANGED <<realFrame, result, task>>

\* line 472
RealSearchKnowledge ==
    /\ pc = "context"
    /\ \E o \in ToolOutcomes, fate \in SinkFates :
         LET late == After(sink, fate)
             out  == Real_search_knowledge(mcp.state, stream_callback, sink, late,
                                           mcp.mcp_session, TransportOpen, o)
         IN  /\ ~stream_callback => fate = "up"
             /\ mcp' = [mcp EXCEPT !.state = out.state]
             /\ RealDone("knowledge", out, late, TRUE)
    /\ UNCHANGED <<realFrame, result, task>>

\* line 473
RealAnalyzePatterns ==
    /\ pc = "knowledge"
    /\ \E o1 \in ToolOutcomes, o2 \in ToolOutcomes, fate \in SinkFates :
         LET late == After(sink, fate)
             out  == Real_analyze_patterns(mcp.state, stream_callback, sink, late,
                                           mcp.mcp_session, TransportOpen, o1, o2)
         IN  /\ ~stream_callback => fate = "up"
             /\ mcp' = [mcp EXCEPT !.state = out.state]
             /\ RealDone("patterns", out, late, TRUE)
    /\ UNCHANGED <<realFrame, result, task>>

\* line 474
RealReasonAboutRootCause ==
    /\ pc = "patterns"
    /\ \E reply \in ReasonReplies, fate \in SinkFates :
         LET late == After(sink, fate)
             out  == Real_reason_about_root_cause(mcp.state, reply, stream_callback,
                                                  sink, late)
         IN  /\ ~stream_callback => fate = "up"
             /\ mcp' = [mcp EXCEPT !.state = out.state]
             /\ RealDone("reasoned", out, late, TRUE)
    /\ UNCHANGED <<realFrame, result, task>>

\* line 475, and the async with of line 469 is left
RealGenerateFixSuggestions ==
    /\ pc = "reasoned"
    /\ \E reply \in RealFixReplies, fate \in SinkFates :
         LET late == After(sink, fate)
             out  == Real_generate_fix_suggestions(mcp.state, reply, stream_callback,
                                                   sink, late)
             left == IF out.raised THEN out
                     ELSE [out EXCEPT !.steps = @ \o <<"session_exit">>]
         IN  /\ ~stream_callback => fate = "up"
             /\ mcp' = [mcp EXCEPT !.state = out.state]
             /\ RealDone("fixed", left, late, TRUE)
    /\ UNCHANGED <<realFrame, result, task>>

\* lines 477-491: the complete message is sent and the state returned
RealComplete ==
    /\ pc = "fixed"
    /\ LET told == IF stream_callback /\ sink # "up"
                   THEN [raised |-> TRUE, exc |-> SinkExc(sink), delivered |-> <<>>,
                         steps |-> <<>>]
                   ELSE [raised |-> FALSE, exc |-> "none", steps |-> <<>>,
                         delivered |-> IF stream_callback
                                       THEN <<RealCompleteMessage(mcp.state)>> ELSE <<>>]
       IN  /\ RealDone("returned", told, sink, FALSE)
           /\ result' = IF told.raised THEN result ELSE mcp.state
    /\ UNCHANGED <<realFrame, task, mcp>>

InitReal ==
    /\ pc = "idle"
    /\ max_iterations = 1
    /\ ws = "off"
    /\ stream_callback \in BOOLEAN
    /\ iteration = 0
    /\ conversation_history = <<>>
    /\ observations = <<>>
    /\ final_answer = Nothing
    /\ result = Nothing
    /\ events = <<>>
    /\ llm_inputs = <<>>
    /\ tool_invocations = <<>>
    /\ parse_in = <<>>
    /\ parse_out = Nothing
    /\ tool_in = Nothing
    /\ tool_out = Nothing
    /\ task = Nothing
    /\ sink = "up"
    /\ exc = "none"
    /\ sent = <<>>
    /\ kb = <<>>
    /\ timeline = <<>>
    /\ plan = Nothing
    /\ pair = Nothing
    /\ wf = Nothing
    /\ db = Nothing
    /\ mcp = [mcp_session |-> FALSE, state |-> Nothing]

NextReal ==
    \/ RealConnect
    \/ RealFetchIssueContext
    \/ RealSearchKnowledge
    \/ RealAnalyzePatterns
    \/ RealReasonAboutRootCause
    \/ RealGenerateFixSuggestions
    \/ RealComplete
    \/ Disconnect

SpecReal == InitReal /\ [][NextReal]_vars

(***************************************************************************)
(* database.py: the global db_service used by concurrent coroutines.       *)
(***************************************************************************)
Callers == 1..MaxCallers

\* what awaiting db.connect() or db.disconnect() or the create ends in
AwaitOutcomes == {"returns", "raises"}

\* lines 200-201: the instance made at import, lines 10-12
DatabaseService ==
    [_connected |-> FALSE,
     connects   |-> 0,      \* invocations of self.db.connect() since the last disconnect
     calls      |-> 0,      \* calls made on the service so far
     saved      |-> 0,      \* analyses created
     at         |-> [c \in Callers |-> "idle"],
     op         |-> [c \in Callers |-> "none"]]

dbFrame == <<pc, max_iterations, stream_callback, iteration, conversation_history,
             observations, final_answer, result, events, llm_inputs, tool_invocations,
             parse_in, parse_out, tool_in, tool_out,
             task, sink, exc, ws, sent, kb, timeline, plan, pair, wf, mcp>>

\* lines 14-18 up to the await, entered through connect (lines 20-22) or
\* through save_analysis (line 47)
EnsureConnected(c) ==
    /\ db.at[c] = "idle"
    /\ db.calls < MaxDbCalls
    /\ \E op \in {"connect", "save_analysis"} :
         IF ~db._connected
         THEN \* line 17: self.db.connect() is invoked and awaited
              db' = [db EXCEPT !.calls = @ + 1, !.connects = @ + 1,
                               !.at[c] = "connecting", !.op[c] = op]
         ELSE \* line 16: the flag is set, nothing to do
              db' = [db EXCEPT !.calls = @ + 1,
                               !.at[c] = IF op = "connect" THEN "idle" ELSE "creating",
                               !.op[c] = IF op = "connect" THEN "none" ELSE op]
    /\ UNCHANGED dbFrame

\* lines 17-18: the await of db.connect() ends
ConnectEnds(c) ==
    /\ db.at[c] = "connecting"
    /\ \E outcome \in AwaitOutcomes :
         IF outcome = "raises"
         THEN \* the exception leaves ensure_connected and its caller
              db' = [db EXCEPT !.at[c] = "idle", !.op[c] = "none"]
         ELSE \* line 18
              db' = [db EXCEPT !._connected = TRUE,
                               !.at[c] = IF db.op[c] = "connect" THEN "idle" ELSE "creating",
                               !.op[c] = IF db.op[c] = "connect" THEN "none" ELSE @]
    /\ UNCHANGED dbFrame

\* lines 49-81 of save_analysis: the analysis is created, or the exception
\* is raised again
CreateEnds(c) ==
    /\ db.at[c] = "creating"
    /\ \E outcome \in AwaitOutcomes :
         db' = [db EXCEPT !.saved = IF outcome = "returns" THEN @ + 1 ELSE @,
                          !.at[c] = "idle", !.op[c] = "none"]
    /\ UNCHANGED dbFrame

\* lines 24-27 up to the await
DbDisconnect(c) ==
    /\ db.at[c] = "idle"
    /\ db.calls < MaxDbCalls
    /\ IF db._connected
       THEN db' = [db EXCEPT !.calls = @ + 1, !.connects = 0,
                             !.at[c] = "disconnecting", !.op[c] = "disconnect"]
       ELSE db' = [db EXCEPT !.calls = @ + 1]
    /\ UNCHANGED dbFrame

\* lines 27-28: the await of db.disconnect() ends
DisconnectEnds(c) ==
    /\ db.at[c] = "disconnecting"
    /\ \E outcome \in AwaitOutcomes :
         db' = [db EXCEPT !._connected = IF outcome = "returns" THEN FALSE ELSE @,
                          !.at[c] = "idle", !.op[c] = "none"]
    /\ UNCHANGED dbFrame

InitDb ==
    /\ pc = "idle"
    /\ max_iterations = 1
    /\ ws = "off"
    /\ stream_callback = FALSE
    /\ iteration = 0
    /\ conversation_history = <<>>
    /\ observations = <<>>
    /\ final_answer = Nothing
    /\ result = Nothing
    /\ events = <<>>
    /\ llm_inputs = <<>>
    /\ tool_invocations = <<>>
    /\ parse_in = <<>>
    /\ parse_out = Nothing
    /\ tool_in = Nothing
    /\ tool_out = Nothing
    /\ task = Nothing
    /\ sink = "up"
    /\ exc = "none"
    /\ sent = <<>>
    /\ kb = <<>>
    /\ timeline = <<>>
    /\ plan = Nothing
    /\ pair = Nothing
    /\ wf = Nothing
    /\ mcp = Nothing
    /\ db = DatabaseService

NextDb ==
    \E c \in Callers :
        \/ EnsureConnected(c)
        \/ ConnectEnds(c)
        \/ CreateEnds(c)
        \/ DbDisconnect(c)
        \/ DisconnectEnds(c)

SpecDb == InitDb /\ [][NextDb]_vars

(***************************************************************************)
(* Notions the properties are stated with.                                 *)
(***************************************************************************)
\* The properties of the loop that speak of what a response leads to are
\* stated for runs whose stream callback, if set, delivers (~SinkFails).
\* the responses the model has given so far, in order
Responded == LET said == SelectSeq(conversation_history, LAMBDA e : e.role = "ai")
             IN  [k \in 1..Len(said) |-> said[k].content]

\* the lines the parser sees
LinesOf(text) == Split(Strip(text), NL)

\* the marker lines of a text, and the action named by the first of them
MarkerLines(text) == {i \in 1..Len(LinesOf(text)) : StartsWith(LinesOf(text)[i], "ACTION:")}
FirstMarker(text) ==
    IF MarkerLines(text) = {} THEN <<>>
    ELSE Strip(Replace(LinesOf(text)[Min(MarkerLines(text))], "ACTION:"))

IsAnswerText(text) == FirstMarker(text) = <<"ANSWER">>

\* a / b = c / d
SameRatio(r, n, d) == r.num * d = n * r.den

\* every response so far parsed to Think
AllThink == \A k \in 1..Len(Responded) : _parse_llm_response(Responded[k]).action = "THINK"

(***************************************************************************)
(* C1: the iteration counter never exceeds max_iterations: the model is    *)
(* invoked at most max_iterations times and a returned result reports at   *)
(* most max_iterations iterations.                                         *)
(***************************************************************************)
C1_IterationBound ==
    /\ iteration <= max_iterations
    /\ Len(llm_inputs) <= max_iterations
    /\ pc = "returned" => result.iterations <= max_iterations

C1_Witness ==
    /\ pc = "returned"
    /\ max_iterations > 1
    /\ Len(llm_inputs) = max_iterations
    /\ result.iterations = max_iterations

(***************************************************************************)
(* C2: with max_iterations = N and a model whose every response parses to  *)
(* Think, the run ends after exactly N model invocations and returns the   *)
(* exhaustion result: confidence 0.3, no suggested fixes, one key finding  *)
(* about the iteration limit, iterations = N.                              *)
(***************************************************************************)
C2_ThinkExhausts ==
    AllThink =>
      /\ (pc = "loop" /\ Len(llm_inputs) < max_iterations)
            => (ENABLED Iterate /\ ~ENABLED Finish)
      /\ (pc = "loop" /\ Len(llm_inputs) = max_iterations)
            => (~ENABLED Iterate /\ ~ENABLED ModelRaises /\ ENABLED Finish)
      /\ pc = "returned" =>
            /\ Len(llm_inputs) = max_iterations
            /\ SameRatio(result.confidence, 3, 10)
            /\ result.suggested_fixes = EmptyList
            /\ result.key_findings =
                 JV("array", << <<"Investigation did not complete within iteration limit">> >>)
            /\ result.iterations = max_iterations

C2_Witness ==
    /\ pc = "returned"
    /\ AllThink
    /\ max_iterations > 1
    /\ Len(Responded) = max_iterations
    /\ SameRatio(result.confidence, 3, 10)

(***************************************************************************)
(* C3: when the first response is a well-formed ANSWER with CONFIDENCE: 85 *)
(* the run ends in iteration 1, with one model invocation and no tool      *)
(* executed, and returns confidence 0.85 and iterations = 1.               *)
(***************************************************************************)
C3_AnswerFirst ==
    (Len(Responded) >= 1 /\ Responded[1] = RAnswer85) =>
      /\ Len(llm_inputs) = 1
      /\ tool_invocations = <<>>
      /\ pc = "loop" => final_answer # Nothing
      /\ pc = "returned" =>
            /\ SameRatio(result.confidence, 85, 100)
            /\ result.iterations = 1

(***************************************************************************)
(* C4: when the responses are a well-formed TOOL_CALL of a registered tool *)
(* and then a well-formed ANSWER (confidence 90, one fix), the tool is     *)
(* executed once with the given arguments, its result is in the context of *)
(* the second model invocation, and the result carries the root cause of   *)
(* the Answer, confidence 0.9, one fix and iterations = 2.                 *)
(***************************************************************************)
C4_ToolThenAnswer ==
    (pc = "returned" /\ Len(Responded) >= 2
        /\ Responded[1] = RToolCall /\ Responded[2] = RAnswer90) =>
      /\ \E outcome \in ToolOutcomes :
           /\ tool_invocations =
                << [tool |-> "get_stacktrace",
                    arguments |-> JV("object", {<<"issue_id", <<"X">>>>})] >>
           /\ \E k \in 1..Len(llm_inputs[2]) :
                llm_inputs[2][k] = ObservationEntry(<<"get_stacktrace">>,
                                       ToolReturn("get_stacktrace", outcome))
      /\ result.root_cause = <<"Null", SP, "checkout", SP, "reference">>
      /\ SameRatio(result.confidence, 90, 100)
      /\ Len(result.suggested_fixes.val) = 1
      /\ result.iterations = 2

(***************************************************************************)
(* C5: an iteration whose response is an Answer ends the run: nothing      *)
(* follows it in the context (no further response, observation or nudge)   *)
(* and the final answer is set in that iteration.                          *)
(***************************************************************************)
C5_AnswerEndsRun ==
    ~SinkFails =>
    \A k \in 1..Len(conversation_history) :
        (conversation_history[k].role = "ai"
            /\ IsAnswerText(conversation_history[k].content)) =>
          /\ k = Len(conversation_history)
          /\ final_answer # Nothing

(***************************************************************************)
(* C6: a tool call naming a tool that is not registered invokes no tool;   *)
(* the loop records the error Unknown tool: <name> as the observation      *)
(* that follows the response and goes on.                                  *)
(***************************************************************************)
C6_UnknownToolObserved ==
    ~SinkFails =>
    \A k \in 1..Len(conversation_history) :
        conversation_history[k] = AIMessage(RToolUnknown) =>
          /\ \A c \in 1..Len(tool_invocations) :
                tool_invocations[c].tool # "nonexistent_tool"
          /\ k < Len(conversation_history)
          /\ conversation_history[k + 1] =
               ObservationEntry(<<"nonexistent_tool">>,
                   ErrorResult(<<"Unknown tool:", SP, "nonexistent_tool">>))
          /\ \E o \in 1..Len(observations) :
                observations[o] =
                  [type |-> "tool_result", tool |-> <<"nonexistent_tool">>,
                   result |-> ErrorResult(<<"Unknown tool:", SP, "nonexistent_tool">>)]

(***************************************************************************)
(* C7: when a registered tool raises on being invoked (here: it rejects    *)
(* the arguments), the error is contained; the loop records it as the      *)
(* observation that follows the response and goes on.                      *)
(***************************************************************************)
C7_ToolErrorObserved ==
    ~SinkFails =>
    \A k \in 1..Len(conversation_history) :
        conversation_history[k] = AIMessage(RToolBadArgs) =>
          /\ k < Len(conversation_history)
          /\ conversation_history[k + 1] =
               ObservationEntry(<<"get_stacktrace">>, ErrorResult(<<"TypeError">>))
          /\ \E o \in 1..Len(observations) :
                observations[o] =
                  [type |-> "tool_result", tool |-> <<"get_stacktrace">>,
                   result |-> ErrorResult(<<"TypeError">>)]

(***************************************************************************)
(* C8: the parser is total: whatever the response text, it returns one     *)
(* action among Think, ToolCall and Answer and does not raise.             *)
(***************************************************************************)
C8_ParserTotal ==
    parse_out # Nothing => parse_out.action \in {"THINK", "TOOL_CALL", "ANSWER"}

(***************************************************************************)
(* C9: a response without a line starting with ACTION: parses to Think     *)
(* with the entire response text as reasoning.                             *)
(***************************************************************************)
C9_NoMarkerIsThink ==
    (parse_out # Nothing /\ MarkerLines(parse_in) = {}) =>
        parse_out = [action |-> "THINK", reasoning |-> parse_in]

C9_Witness ==
    /\ parse_out # Nothing
    /\ MarkerLines(parse_in) = {}
    /\ Len(parse_in) > 2
    /\ IsSpace(parse_in[1])
    /\ parse_out.action = "THINK"

(***************************************************************************)
(* C10: a well-formed ACTION: THINK response parses to Think whose         *)
(* reasoning is the REASONING: lines up to the next ACTION: marker or code *)
(* fence, joined with single spaces.                                       *)
(***************************************************************************)
\* the REASONING: line and the lines that continue it, marker removed
ReasoningText(text) ==
    LET lines  == LinesOf(text)
        i      == Min(MarkerLines(text))
        start  == Min({j \in (i+1)..Len(lines) : StartsWith(lines[j], "REASONING:")})
        stops  == {k \in (start+1)..Len(lines) :
                      StartsWith(lines[k], FENCE) \/ StartsWith(lines[k], "ACTION:")}
        last   == IF stops = {} THEN Len(lines) ELSE Min(stops) - 1
    IN  Strip(Replace(Join(SP, SubSeq(lines, start, last)), "REASONING:"))

WellFormedThink(text) ==
    /\ FirstMarker(text) = <<"THINK">>
    /\ \E j \in (Min(MarkerLines(text)) + 1)..Len(LinesOf(text)) :
          StartsWith(LinesOf(text)[j], "REASONING:")

C10_ThinkReasoning ==
    (parse_out # Nothing /\ WellFormedThink(parse_in)) =>
        /\ parse_out.action = "THINK"
        /\ parse_out.reasoning \in
             { ReasoningText(parse_in),
               ThinkBranch(LinesOf(parse_in), Min(MarkerLines(parse_in))).reasoning }

(***************************************************************************)
(* _execute_tool called directly (SpecTool): the dispatcher contains both  *)
(* failures.  An unregistered name yields the Unknown tool error and no    *)
(* tool is invoked; a registered tool that rejects its arguments yields an *)
(* error result, not an exception.                                         *)
(***************************************************************************)
ExecuteToolContainsFailures ==
    (tool_out # Nothing /\ ~SinkFails) =>
      /\ tool_in.tool_name \notin { <<t>> : t \in ToolNames } =>
            /\ tool_out = ErrorResult(<<"Unknown tool:", SP>> \o tool_in.tool_name)
            /\ tool_invocations = <<>>
      /\ (tool_in.tool_name \in { <<t>> : t \in ToolNames }
            /\ ~ArgumentsAccepted(tool_in.tool_name[1], tool_in.arguments)) =>
            /\ tool_out = ErrorResult(<<"TypeError">>)
            /\ tool_invocations = <<>>

(***************************************************************************)
(* C11: a well-formed ACTION: TOOL_CALL response with a TOOL: line and     *)
(* ARGUMENTS that are a valid JSON object parses to ToolCall with the tool *)
(* name of the TOOL: line and the parsed JSON object as arguments.         *)
(***************************************************************************)
\* the lines after the first marker that start with the given key
KeyLines(text, key) ==
    {j \in (Min(MarkerLines(text)) + 1)..Len(LinesOf(text)) :
        StartsWith(LinesOf(text)[j], key)}

WellFormedToolCall(text) ==
    /\ FirstMarker(text) = <<"TOOL_CALL">>
    /\ Cardinality(KeyLines(text, "TOOL:")) = 1
    /\ Cardinality(KeyLines(text, "ARGUMENTS:")) = 1
    /\ Strip(Replace(LinesOf(text)[Min(KeyLines(text, "TOOL:"))], "TOOL:")) # <<>>
    /\ LET loaded == JsonLoads(ArgsText(LinesOf(text), Min(KeyLines(text, "ARGUMENTS:"))))
       IN  loaded.ok /\ loaded.val.jtype = "object"

C11_ToolCallParsed ==
    (parse_out # Nothing /\ WellFormedToolCall(parse_in)) =>
        parse_out =
          [action    |-> "TOOL_CALL",
           tool      |-> Strip(Replace(LinesOf(parse_in)[Min(KeyLines(parse_in, "TOOL:"))],
                                       "TOOL:")),
           arguments |-> JsonLoads(ArgsText(LinesOf(parse_in),
                                       Min(KeyLines(parse_in, "ARGUMENTS:")))).val]

(***************************************************************************)
(* C12: within one run of investigate the conversation history only grows: *)
(* no step of the loop removes, replaces or reorders an entry, and the     *)
(* message list passed to each model invocation has the list passed to the *)
(* previous invocation as a strict prefix.                                 *)
(***************************************************************************)
IsPrefix(a, b) == Len(a) <= Len(b) /\ SubSeq(b, 1, Len(a)) = a
IsStrictPrefix(a, b) == Len(a) < Len(b) /\ SubSeq(b, 1, Len(a)) = a

C12_HistoryGrows ==
    /\ [](\A k \in 1..(Len(llm_inputs) - 1) :
             IsStrictPrefix(llm_inputs[k], llm_inputs[k + 1]))
    /\ [][pc = "loop" => IsPrefix(conversation_history, conversation_history')]_vars

C12_Witness ==
    /\ pc = "returned"
    /\ Len(llm_inputs) >= 3
    /\ IsStrictPrefix(llm_inputs[1], llm_inputs[2])
    /\ IsStrictPrefix(llm_inputs[2], llm_inputs[3])
    /\ IsStrictPrefix(llm_inputs[3], conversation_history)

(***************************************************************************)
(* C13: every run through the websocket endpoint ends with exactly one     *)
(* terminal message: one complete when investigate returned, one error     *)
(* when the run ended by a fatal failure, never both and never more than   *)
(* one of either.                                                          *)
(***************************************************************************)
\* the session is over
SessionOver == ws \in {"done", "closed", "disconnected"}

\* the terminal messages delivered to the client
Terminals == SelectSeq(sent, LAMBDA m : m.type \in {"complete", "error"})

C13_OneTerminal ==
    (SessionOver /\ pc \in {"returned", "raised"}) =>
        /\ Len(Terminals) = 1
        /\ Terminals[1].type = (IF pc = "returned" THEN "complete" ELSE "error")

(***************************************************************************)
(* C13, amended: a session never delivers more than one terminal message,  *)
(* a complete one only when investigate returned and an error one only     *)
(* when it did not; a session whose connection delivers to the end         *)
(* delivers exactly one.  A session whose client went away, or whose       *)
(* connection broke, may end with none.                                    *)
(***************************************************************************)
C13_OneTerminalWhileConnected ==
    /\ Len(Terminals) <= 1
    /\ \A i \in 1..Len(Terminals) :
         Terminals[i].type = (IF pc = "returned" THEN "complete" ELSE "error")
    /\ (SessionOver /\ sink = "up") => Len(Terminals) = 1

C13_Witness ==
    /\ SessionOver
    /\ sink = "up"
    /\ pc = "returned"
    /\ max_iterations > 1
    /\ Len(Terminals) = 1
    /\ Terminals[1].type = "complete"

(***************************************************************************)
(* C14: whenever investigate returns with a stream callback set, it has    *)
(* emitted exactly one complete event, after every step event of the run,  *)
(* whose content is the returned result together with the issue_id and the *)
(* error_message it was called with.                                       *)
(***************************************************************************)
CompleteEvents == {i \in 1..Len(events) : events[i].type = "complete"}

C14_CompleteEvent ==
    (pc = "returned" /\ stream_callback) =>
        /\ CompleteEvents = {Len(events)}
        /\ LET content == events[Len(events)].content
           IN  /\ content.issue_id = task.issue_id
               /\ content.error_message = task.error_message
               /\ content.root_cause = result.root_cause
               /\ content.confidence = result.confidence
               /\ content.suggested_fixes = result.suggested_fixes
               /\ content.key_findings = result.key_findings
               /\ content.iterations = result.iterations
               /\ content.observations = result.observations

C14_Witness ==
    /\ pc = "returned"
    /\ stream_callback
    /\ Len(events) > 3
    /\ events[Len(events)].type = "complete"
    /\ events[Len(events)].content.issue_id = <<"ISSUE-2">>
    /\ events[Len(events) - 1].type = "step"

(***************************************************************************)
(* C15: a model invocation that raises in an iteration of investigate is   *)
(* neither retried nor recovered from: the run is over with the exception, *)
(* no further model invocation follows, no complete event is emitted and   *)
(* no result is returned; the websocket endpoint takes its error branch    *)
(* and sends an error message, which the client receives whenever the      *)
(* connection still delivers.                                              *)
(***************************************************************************)
C15_ModelFailurePropagates ==
    exc = "ModelError" =>
        /\ pc = "raised"
        /\ result = Nothing
        /\ CompleteEvents = {}
        /\ timeline[Len(timeline)] = "llm_raise"
        /\ Len(llm_inputs) = iteration
        /\ SessionOver =>
             /\ ws = "closed"
             /\ sink = "up" =>
                  sent[Len(sent)] = [type |-> "error", content |-> [error |-> "ModelError"]]

C15_Witness ==
    /\ exc = "ModelError"
    /\ iteration >= 2
    /\ ws = "closed"
    /\ sink = "up"
    /\ sent[Len(sent)].type = "error"

(***************************************************************************)
(* C16: a failure of the stream callback while it delivers an event does   *)
(* not abort the investigation: no run of investigate ends with the        *)
(* exception of the callback.                                              *)
(***************************************************************************)
C16_SinkFailureHarmless ==
    pc = "raised" => exc \notin {"WebSocketDisconnect", "SinkError"}

(***************************************************************************)
(* C18: within one investigation at most one model invocation or tool      *)
(* execution is in flight at any time: a tool execution starts only after  *)
(* the model invocation of its iteration has returned and been parsed, and *)
(* a model invocation starts only after the step before it is over (the    *)
(* response parsed or, after a tool call, the observation appended).       *)
(***************************************************************************)
Starts == {"llm_start", "tool_start"}
Ends   == {"llm_end", "llm_raise", "tool_end"}

\* the calls in flight after the first k events of the timeline
InFlight(k) ==
    Cardinality({i \in 1..k : timeline[i] \in Starts}) -
    Cardinality({i \in 1..k : timeline[i] \in Ends})

C18_OneInFlight ==
    \A k \in 1..Len(timeline) :
        /\ InFlight(k) \in {0, 1}
        /\ timeline[k] \in Starts => InFlight(k - 1) = 0
        /\ timeline[k] = "tool_start" => (k > 1 /\ timeline[k - 1] = "parsed")
        /\ (timeline[k] = "llm_start" /\ k > 1) =>
              timeline[k - 1] \in {"parsed", "observed"}
        /\ timeline[k] = "parsed" => (k > 1 /\ timeline[k - 1] = "llm_end")
        /\ timeline[k] = "observed" =>
              (k > 1 /\ timeline[k - 1] \in {"parsed", "tool_end"})

C18_Witness ==
    /\ pc = "returned"
    /\ Len(timeline) >= 6
    /\ SubSeq(timeline, 1, 6) =
         <<"llm_start", "llm_end", "parsed", "llm_start", "llm_end", "parsed">>

(***************************************************************************)
(* C19: after investigate_with_planning the plan is an entry of the        *)
(* context of the loop: every model invocation of the loop receives a      *)
(* message list that contains the plan entry.                              *)
(***************************************************************************)
C19_PlanInContext ==
    \A k \in 1..Len(llm_inputs) :
        \E i \in 1..Len(llm_inputs[k]) : llm_inputs[k][i] = PlanEntry(plan.steps)

(***************************************************************************)
(* C20: the terminal result tells how the run ended: the complete event    *)
(* of a run that used up its iteration budget does not carry the status    *)
(* of a run that ended by an answer (success).                             *)
(***************************************************************************)
\* the run returned because the budget was used up
Exhausted ==
    /\ pc = "returned"
    /\ iteration = max_iterations
    /\ result = ExhaustedAnswer(iteration, observations)

C20_ExhaustionDistinct ==
    (Exhausted /\ stream_callback) =>
        events[Len(events)].content.status # "success"

(***************************************************************************)
(* C17: two investigations running side by side on two instances, under    *)
(* any interleaving of their steps, never read or write each other's       *)
(* history, iteration counter or observation log: at every moment the      *)
(* state of each, and so the result it returns, is the one it would have   *)
(* if it ran alone with the same model and tool responses, whatever the    *)
(* other one did, a fatal failure included.                                *)
(***************************************************************************)
\* the state of a run that is alone, after its model has given these replies
RECURSIVE RunAlone(_)
RunAlone(replies) ==
    IF replies = <<>> THEN LoopStart
    ELSE LoopStep(RunAlone(SubSeq(replies, 1, Len(replies) - 1)),
                  replies[Len(replies)])

C17_Independent ==
    \A self \in Instances :
        LET alone == RunAlone(pair.agent[self].replies)
        IN  /\ pair.agent[self].pc \in {"loop", "raised"} => View(self) = alone
            /\ pair.agent[self].pc = "returned" => View(self) = AfterLoop(alone)

C17_Witness ==
    /\ pair.agent[1].pc = "raised"
    /\ pair.agent[1].iteration = 1
    /\ pair.agent[2].pc = "returned"
    /\ pair.agent[2].iteration = 2
    /\ pair.agent[2].result = AfterLoop(RunAlone(pair.agent[2].replies)).result
    /\ pair.history[1] # pair.history[2]

(***************************************************************************)
(* C21: when an investigation ends in a fatal failure, the observations    *)
(* recorded before it remain available to the caller: the websocket        *)
(* session that ran it has a result, or a terminal message, that carries   *)
(* them.                                                                   *)
(***************************************************************************)
\* the observations a terminal message carries
ObservationsIn(m) ==
    IF "observations" \in DOMAIN m.content THEN m.content.observations ELSE <<>>

C21_ProgressAvailable ==
    (pc = "raised" /\ observations # <<>> /\ SessionOver /\ sink = "up") =>
        \/ result # Nothing /\ result.observations = observations
        \/ \E i \in 1..Len(Terminals) : ObservationsIn(Terminals[i]) = observations

(***************************************************************************)
(* C22: on the websocket endpoint a successful investigation produces the  *)
(* messages start, then step messages, then complete: start is the first   *)
(* message, complete is the last one of the session, and only step         *)
(* messages lie between them.                                              *)
(***************************************************************************)
C22_MessageOrder ==
    pc = "returned" =>
        /\ Len(sent) >= 2
        /\ sent[1].type = "start"
        /\ sent[Len(sent)].type = "complete"
        /\ \A i \in 2..(Len(sent) - 1) : sent[i].type = "step"

C22_Witness ==
    /\ ws = "done"
    /\ pc = "returned"
    /\ Len(sent) >= 6
    /\ sent[1].type = "start"
    /\ sent[2].type = "step"
    /\ sent[Len(sent)].type = "complete"

(***************************************************************************)
(* C24: the answer-now entry is appended at the end of an iteration that   *)
(* produced no answer if and only if that iteration is number              *)
(* max_iterations - 1: never after the last iteration, and at most once in *)
(* a run.                                                                  *)
(***************************************************************************)
\* where the answer-now entries are, and how many responses precede one
NudgePositions ==
    {p \in 1..Len(conversation_history) : conversation_history[p] = NudgeEntry}
ResponsesBefore(p) ==
    Cardinality({q \in 1..(p - 1) : conversation_history[q].role = "ai"})

C24_NudgeOnce ==
    pc \in {"loop", "returned", "raised"} =>
        /\ Cardinality(NudgePositions) <= 1
        /\ \A p \in NudgePositions : ResponsesBefore(p) = max_iterations - 1
        /\ (pc = "loop" /\ final_answer = Nothing /\ iteration >= 1
              /\ iteration >= max_iterations - 1) => NudgePositions # {}

(***************************************************************************)
(* C25: every tool_execution event of _execute_tool is followed, before    *)
(* _execute_tool returns, by exactly one tool_result event for the same    *)
(* tool that carries the success preview or the error text, whether the    *)
(* tool succeeded, raised or is unknown.                                   *)
(***************************************************************************)
\* the tool_result events after event i that answer it
ResultEventsFor(i) ==
    {j \in (i + 1)..Len(events) :
        /\ events[j].step_type = "tool_result"
        /\ events[j].data.tool = events[i].data.tool
        /\ \/ "result_preview" \in DOMAIN events[j].data
           \/ "error" \in DOMAIN events[j].data}

C25_ResultEventFollows ==
    (tool_out # Nothing /\ ~SinkFails) =>
        \A i \in 1..Len(events) :
            events[i].step_type = "tool_execution" =>
                Cardinality(ResultEventsFor(i)) = 1

(***************************************************************************)
(* C26: a tool call without a tool name executes no tool and emits no      *)
(* tool_execution event; the entry saying that no tool name was provided   *)
(* follows the response in the context, and the run is not aborted.        *)
(***************************************************************************)
C26_NoToolNameObserved ==
    ~SinkFails =>
        /\ \A k \in 1..Len(conversation_history) :
              conversation_history[k] = AIMessage(RToolNoName) =>
                /\ k < Len(conversation_history)
                /\ conversation_history[k + 1] = NoToolNameEntry
        /\ (Responded # <<>>
              /\ \A i \in 1..Len(Responded) : Responded[i] = RToolNoName) =>
                /\ tool_invocations = <<>>
                /\ \A e \in 1..Len(events) :
                      events[e].type = "step" => events[e].step_type # "tool_execution"
                /\ exc \in {"none", "ModelError"}

(***************************************************************************)
(* C27: for each tool call with a tool name exactly one entry              *)
(* OBSERVATION: Tool <name> returned: <result> is appended directly after  *)
(* the response, and exactly one tool_result observation is appended to    *)
(* the log, so that the log lists the results in the order of the calls.   *)
(***************************************************************************)
\* the responses that call a tool by name, and the name they give
NamedCallTexts == {RToolCall, RToolUnknown, RToolBadArgs}
NamedCalls == SelectSeq(Responded, LAMBDA r : r \in NamedCallTexts)
ToolOfText(r) == IF r = RToolUnknown THEN <<"nonexistent_tool">> ELSE <<"get_stacktrace">>

\* the entries of the context that report a tool result
IsResultEntry(e) ==
    /\ e.role = "human"
    /\ StartsWith(e.content, "OBSERVATION:")
    /\ e # NoToolNameEntry
ResultEntries == SelectSeq(conversation_history, IsResultEntry)

\* the tool results of the observation log
ToolResults == SelectSeq(observations, LAMBDA o : o.type = "tool_result")

C27_ToolResultObserved ==
    ~SinkFails =>
        /\ Len(ResultEntries) = Len(NamedCalls)
        /\ Len(ToolResults) = Len(NamedCalls)
        /\ \A i \in 1..Len(NamedCalls) :
              /\ i <= Len(ToolResults)
              /\ i <= Len(ResultEntries)
              /\ ToolResults[i].tool = ToolOfText(NamedCalls[i])
              /\ ResultEntries[i] =
                   ObservationEntry(ToolResults[i].tool, ToolResults[i].result)
        /\ \A k \in 1..Len(conversation_history) :
              (conversation_history[k].role = "ai"
                 /\ conversation_history[k].content \in NamedCallTexts) =>
                /\ k < Len(conversation_history)
                /\ IsResultEntry(conversation_history[k + 1])

(***************************************************************************)
(* C28: a Think step adds the response to the context (and the answer-now  *)
(* entry when it is due) and one thought observation to the log, and       *)
(* nothing else: no tool is executed, no observation entry is appended to  *)
(* the context, the only events are the iteration and the thinking event,  *)
(* and the earlier entries and observations stay as they were.             *)
(***************************************************************************)
C28_ThinkFrame ==
    [][(pc = "loop" /\ pc' = "loop" /\ iteration' = iteration + 1) =>
          LET r == conversation_history'[Len(conversation_history) + 1]
              p == _parse_llm_response(r.content)
          IN  (r.role = "ai" /\ p.action = "THINK") =>
                /\ conversation_history' \in
                     { Append(conversation_history, r),
                       Append(Append(conversation_history, r), NudgeEntry) }
                /\ observations' =
                     Append(observations, [type |-> "thought", content |-> p.reasoning])
                /\ tool_invocations' = tool_invocations
                /\ events' = events \o
                     Emit(stream_callback, "iteration",
                          [number |-> iteration', max |-> max_iterations]) \o
                     Emit(stream_callback, "thinking",
                          [iteration |-> iteration', reasoning |-> p.reasoning])
      ]_vars

C28_Witness ==
    /\ pc = "loop"
    /\ max_iterations = 3
    /\ iteration = 2
    /\ Responded = <<RThink, RThink>>
    /\ Len(observations) = 2
    /\ observations[2].type = "thought"
    /\ tool_invocations = <<>>
    /\ Len(conversation_history) = 5

(***************************************************************************)
(* C29: each iteration emits one iteration event carrying (current, max)   *)
(* before its one model invocation, the current values of a run being      *)
(* 1, 2, ..., k; the raw response is in the context before it is parsed.   *)
(***************************************************************************)
IterationEvents ==
    SelectSeq(events, LAMBDA e : e.type = "step" /\ e.step_type = "iteration")
ResponseEntries == SelectSeq(conversation_history, LAMBDA e : e.role = "ai")

C29_IterationEvents ==
    pc \in {"loop", "returned", "raised"} =>
        /\ stream_callback =>
              /\ \A i \in 1..Len(IterationEvents) :
                    IterationEvents[i].data = [number |-> i, max |-> max_iterations]
              \* an invocation, also one that raises, has its event before it
              /\ Len(llm_inputs) = Len(IterationEvents)
        /\ Len(llm_inputs) \in {iteration, iteration - 1}
        /\ Len(llm_inputs) = iteration - 1 =>
              (pc = "raised" /\ exc \in {"SinkError", "WebSocketDisconnect"})
        /\ Len(ResponseEntries) =
              Len(llm_inputs) - (IF exc = "ModelError" THEN 1 ELSE 0)
        \* a response the parser raises on is in the context already
        /\ exc = "RecursionError" =>
              conversation_history[Len(conversation_history)] = AIMessage(RToolDeep)

C29_Witness ==
    /\ stream_callback
    /\ pc = "raised"
    /\ exc = "RecursionError"
    /\ iteration = 2
    /\ Len(IterationEvents) = 2
    /\ IterationEvents[2].data = [number |-> 2, max |-> max_iterations]
    /\ conversation_history[Len(conversation_history)] = AIMessage(RToolDeep)

(***************************************************************************)
(* C30: the confidence of the result of a run that ended by an answer is   *)
(* the integer written after CONFIDENCE: divided by 100, and the           *)
(* confidence of every returned result lies within 0..1.                   *)
(***************************************************************************)
\* the integer an answer text gives after CONFIDENCE:
ConfidenceWritten(text) == IntOf(FieldAfter(text, "CONFIDENCE:")[1])

C30_ConfidenceNormalised ==
    pc = "returned" =>
        /\ 0 <= result.confidence.num
        /\ result.confidence.num <= result.confidence.den
        /\ IsAnswerText(Responded[Len(Responded)]) =>
              SameRatio(result.confidence,
                        ConfidenceWritten(Responded[Len(Responded)]), 100)

(***************************************************************************)
(* C23: in MCPIncidentAgent.investigate a model invocation that fails      *)
(* during root cause reasoning or fix generation is fatal for the          *)
(* investigation: the exception reaches the caller, an error message is    *)
(* sent to the callback, and no complete message is sent.                  *)
(***************************************************************************)
\* a model invocation of the workflow has raised
WfModelFailed == wf # Nothing /\ Contains(timeline, "llm_raise")

C23_ModelFailureFatal ==
    WfModelFailed =>
        /\ pc = "raised"
        /\ \A i \in 1..Len(events) : events[i].type # "complete"
        /\ ~SinkFails =>
              /\ exc = "ModelError"
              /\ stream_callback => \E i \in 1..Len(events) : events[i].type = "error"

(***************************************************************************)
(* C36: for every response text the parser returns Think with the raw      *)
(* response as reasoning, the responses with a well-formed TOOL_CALL or    *)
(* ANSWER marker included.                                                 *)
(***************************************************************************)
C36_AlwaysThink ==
    parse_out # Nothing => parse_out = [action |-> "THINK", reasoning |-> parse_in]

MalformedArguments(text) ==
    /\ FirstMarker(text) = <<"TOOL_CALL">>
    /\ Cardinality(KeyLines(text, "TOOL:")) = 1
    /\ Cardinality(KeyLines(text, "ARGUMENTS:")) = 1
    /\ Strip(Replace(LinesOf(text)[Min(KeyLines(text, "TOOL:"))], "TOOL:")) # <<>>
    /\ LET args_text == ArgsText(LinesOf(text), Min(KeyLines(text, "ARGUMENTS:")))
           loaded    == JsonLoads(args_text)
           braces    == BraceSearch(args_text)
       IN  /\ ~loaded.ok
           /\ loaded.exc = "JSONDecodeError"
           /\ braces.found => ~JsonLoads(braces.text).ok

C31_MalformedArgumentsEmpty ==
    (parse_out # Nothing /\ MalformedArguments(parse_in)) =>
        parse_out =
          [action    |-> "TOOL_CALL",
           tool      |-> Strip(Replace(LinesOf(parse_in)[Min(KeyLines(parse_in, "TOOL:"))],
                                       "TOOL:")),
           arguments |-> EmptyDict]

(***************************************************************************)
(* C32: in an ANSWER response where no valid JSON array follows            *)
(* KEY_FINDINGS:, be the array malformed or absent, the key findings are   *)
(* the lines after the marker that begin with a bullet dash, without the   *)
(* dash, in their order.                                                   *)
(***************************************************************************)
\* the text after KEY_FINDINGS: in the lines that follow the first marker
FindingsText(text) ==
    Split(Join(NL, SubSeq(LinesOf(text), Min(MarkerLines(text)) + 1, Len(LinesOf(text)))),
          "KEY_FINDINGS:")[2]

\* an answer with a KEY_FINDINGS: marker that no valid JSON array follows
NoFindingsArray(text) ==
    /\ IsAnswerText(text)
    /\ Contains(Join(NL, SubSeq(LinesOf(text), Min(MarkerLines(text)) + 1,
                                Len(LinesOf(text)))), "KEY_FINDINGS:")
    /\ LET found == BracketSearch(FindingsText(text))
       IN  found.found => ~JsonLoads(found.text).ok

\* the lines that begin with a dash, the dash and the blanks around it removed
RECURSIVE DashLines(_)
DashLines(ls) ==
    IF ls = <<>> THEN <<>>
    ELSE LET line == Strip(ls[1])
         IN  (IF Len(line) > 0 /\ line[1] = "-"
              THEN << Strip(SubSeq(line, 2, Len(line))) >> ELSE <<>>)
             \o DashLines(Tail(ls))

C32_FindingsFallBackToBullets ==
    (parse_out # Nothing /\ NoFindingsArray(parse_in)) =>
        /\ parse_out.action = "ANSWER"
        /\ parse_out.key_findings = JV("array", DashLines(Split(FindingsText(parse_in), NL)))

(***************************************************************************)
(* C33: plan_investigation invokes the model exactly once, and the plan it *)
(* returns has exactly one entry per line of the response that begins with *)
(* a digit, in the order of the response: the k-th entry is cut out of the *)
(* k-th such line.  Other lines contribute nothing; the plan may be empty. *)
(***************************************************************************)
\* s occurs in line as a contiguous piece
PieceOf(s, line) ==
    \E i \in 1..(Len(line) + 1) :
        i + Len(s) - 1 <= Len(line) /\ SubSeq(line, i, i + Len(s) - 1) = s

\* the lines of the trimmed response that begin with a digit
NumberedLines(response) ==
    SelectSeq(Split(Strip(response), NL),
              LAMBDA l : Len(l) > 0 /\ l[1] \in DigitToks)

PlanCalls == Len(SelectSeq(timeline, LAMBDA e : e = "llm_start"))

C33_OnePlanEntryPerNumberedLine ==
    /\ pc = "planning" => PlanCalls = 0 /\ plan = Nothing
    /\ pc = "planned" => PlanCalls = 1 /\ plan.calls = 1
    /\ (plan # Nothing /\ plan.response # Nothing) =>
          /\ Len(plan.steps) = Len(NumberedLines(plan.response))
          /\ \A k \in 1..Len(plan.steps) :
                PieceOf(plan.steps[k], NumberedLines(plan.response)[k])

C33_Witness ==
    /\ pc = "planned"
    /\ plan.response = PlanMixed
    /\ plan.steps = <<<<"get_stacktrace">>, <<"get_user_impact">>>>

C33_WitnessEmpty == pc = "planned" /\ plan.calls = 1 /\ plan.steps = <<>>

(***************************************************************************)
(* C34: the stages of MCPIncidentAgent.investigate run in the documented   *)
(* order, each once, one after the other: the steps that open the stages   *)
(* are collected in that order without repetition, and every tool call     *)
(* and every closing step of a stage lies between the opening step of its  *)
(* stage and that of the next.  The complete message is sent only after    *)
(* fix generation, once; after a stage raised no stage runs (the step of   *)
(* the handler is the last one collected) and no complete message is sent. *)
(***************************************************************************)
StageOpenings ==
    << <<"Connecting to MCP server...">>,
       <<"Fetching issue context from Sentry...">>,
       <<"Searching knowledge base for similar incidents...">>,
       <<"Analyzing error patterns and user impact...">>,
       <<"AI analyzing root cause...">>,
       <<"Generating fix suggestions...">> >>

IsOpening(step) == \E k \in 1..Len(StageOpenings) : step.step = StageOpenings[k]

\* the stage a step belongs to by what it reports, 0 when it tells nothing
StageOfStep(step) ==
    IF step.step \in {<<"MCP server connected">>} THEN 1
    ELSE IF step.step \in {<<"Calling MCP tool:", SP, "get_sentry_issue_details">>,
                           <<"Calling MCP tool:", SP, "get_stacktrace">>,
                           <<"Issue context retrieved">>} THEN 2
    ELSE IF step.step \in {<<"Calling MCP tool:", SP, "search_knowledge_base">>,
                           <<"Found similar incidents">>,
                           <<"No similar incidents found">>} THEN 3
    ELSE IF step.step \in {<<"Calling MCP tool:", SP, "get_error_frequency">>,
                           <<"Calling MCP tool:", SP, "get_user_impact">>,
                           <<"Pattern analysis complete">>} THEN 4
    ELSE IF step.step \in {<<"Root cause identified (mock)">>,
                           <<"Root cause identified">>,
                           <<"Root cause analysis completed (non-structured)">>,
                           <<"Root cause analysis failed">>} THEN 5
    ELSE IF step.step \in {<<"Fix generation failed">>,
                           <<"Generated fix suggestions (manual parsing required)">>} THEN 6
    ELSE 0

\* the openings among the first n collected steps, in order
OpenedBy(n) ==
    LET first == SubSeq(wf.collected_steps, 1, n)
        open  == SelectSeq(first, IsOpening)
    IN  [k \in 1..Len(open) |-> open[k].step]

CompleteMessages(msgs) == SelectSeq(msgs, LAMBDA m : m.type = "complete")

C34_StagesInOrder ==
    wf # Nothing =>
      LET steps  == wf.collected_steps
          n      == Len(steps)
          opened == OpenedBy(n)
      IN  /\ Len(opened) <= Len(StageOpenings)
          /\ opened = SubSeq(StageOpenings, 1, Len(opened))
          /\ \A i \in 1..n :
                StageOfStep(steps[i]) # 0 => Len(OpenedBy(i)) = StageOfStep(steps[i])
          /\ \A i \in 1..n : steps[i].step = <<"Investigation failed">> => i = n
          /\ pc \in WfPositions \cup {"idle"} => CompleteMessages(events) = <<>>
          /\ pc = "raised" => CompleteMessages(events) = <<>>
          /\ CompleteMessages(events) # <<>> =>
                /\ Len(CompleteMessages(events)) = 1
                /\ events[Len(events)].type = "complete"
                /\ opened = StageOpenings
                /\ pc = "returned"

C34_Witness ==
    /\ wf # Nothing
    /\ pc = "returned"
    /\ OpenedBy(Len(wf.collected_steps)) = StageOpenings
    /\ Len(CompleteMessages(events)) = 1

\* the third stage raised: the later stages have not run
C34_WitnessRaised ==
    /\ wf # Nothing
    /\ pc = "raised"
    /\ Len(OpenedBy(Len(wf.collected_steps))) = 3
    /\ wf.collected_steps[Len(wf.collected_steps)].step = <<"Investigation failed">>

(***************************************************************************)
(* C39: on the shared db_service, whatever the interleaving of the         *)
(* coroutines that call ensure_connected while it is disconnected, the     *)
(* underlying db.connect() is invoked at most once before the next         *)
(* disconnect.                                                             *)
(***************************************************************************)
C39_ConnectInvokedOnce == db # Nothing => db.connects <= 1

(***************************************************************************)
(* C35: in RealMCPIncidentAgent.investigate every MCP tool call is issued  *)
(* while the stdio client and the ClientSession opened by _connect_mcp are *)
(* still open: neither context has been left before a call_tool, and a     *)
(* context is left only when the last stage has run.                       *)
(***************************************************************************)
\* the timeline entries before the k-th
Before(k) == SubSeq(timeline, 1, k - 1)

Happened(what, entries) == \E i \in 1..Len(entries) : entries[i] = what

C35_CallsWhileConnected ==
    mcp # Nothing =>
      /\ \A k \in 1..Len(timeline) :
           timeline[k] = "call_tool" =>
             /\ Happened("stdio_enter", Before(k))
             /\ Happened("session_enter", Before(k))
             /\ ~Happened("stdio_exit", Before(k))
             /\ ~Happened("session_exit", Before(k))
      /\ (pc \in WfPositions \ {"fixed"}) =>
             ~Happened("stdio_exit", timeline) /\ ~Happened("session_exit", timeline)

(***************************************************************************)
(* C38: when an investigation run with the workflow agent fails under the  *)
(* websocket endpoint, the client receives exactly one error message for   *)
(* it: never two, and one when the connection still delivers.              *)
(***************************************************************************)
ErrorMessages(msgs) == SelectSeq(msgs, LAMBDA m : m.type = "error")

C38_OneErrorMessage ==
    (wf # Nothing /\ pc = "raised" /\ ws \in {"closed", "disconnected"}) =>
        /\ Len(ErrorMessages(sent)) <= 1
        /\ sink = "up" => Len(ErrorMessages(sent)) = 1

(***************************************************************************)
(* C40: the endpoint adds an investigation to the knowledge base only      *)
(* after investigate has returned, and only when the returned confidence   *)
(* is greater than 0.7 and the list of suggested fixes is not empty; a     *)
(* failed investigation is never stored, and a session whose investigate   *)
(* returned ends without an error message, whether storing worked or not.  *)
(***************************************************************************)
C40_StoredOnlyWhenWorth ==
    /\ kb # <<>> =>
         /\ pc = "returned"
         /\ ws = "done"
         /\ Len(kb) = 1
         /\ 10 * result.confidence.num > 7 * result.confidence.den
         /\ result.suggested_fixes.val # <<>>
         /\ kb[1].incident_id = task.issue_id
    /\ pc = "raised" => kb = <<>>
    /\ ws = "done" => ErrorMessages(sent) = <<>>

\* an investigation was stored
C40_Witness ==
    /\ ws = "done"
    /\ kb # <<>>
    /\ SameRatio(result.confidence, 85, 100)

\* storing failed: nothing is stored and no error message is sent
C40_WitnessNotStored ==
    /\ ws = "done"
    /\ sink = "up"
    /\ 10 * result.confidence.num > 7 * result.confidence.den
    /\ result.suggested_fixes.val # <<>>
    /\ kb = <<>>
    /\ ErrorMessages(sent) = <<>>

====
